---- MODULE Spec2Model ----
(***************************************************************************)
(* A model of bl3cabinetsorter/app.py: the ModFile metadata record and its *)
(* extractors, the Readme section matcher and the cache status protocol.   *)
(*                                                                         *)
(* Python strings are sequences of one-character strings, so that strip,   *)
(* split, lower, startswith and the regular expressions of the source are  *)
(* computed rather than assumed.  Python None is the value None below.     *)
(***************************************************************************)
EXTENDS Integers, Sequences, FiniteSets, TLC

VARIABLES
    mod,         \* the ModFile record under construction / in the cache
    op,          \* the last operation applied: its name, and what it was given or gave
    error_list,  \* the run's error list (App.error_list), append-only
    df,          \* the file handed to an extractor: its name and its lines
    readme,      \* the Readme record: mapping (insertion-ordered), first_section
    rd,          \* the README file handed to read_file_obj, and whether it was read
    cache,       \* FileCache.mapping: the cached record of each full file name
    fs,          \* the files on disk: the mtime and the lines of each
    run,         \* App._run: where the walk is, what it has processed and written
    cabinet      \* the CabinetInfo record being loaded

vars == <<mod, op, error_list, df, readme, rd, cache, fs, run, cabinet>>

(***************************************************************************)
(* Strings                                                                 *)
(***************************************************************************)

\* Python's None.  No string contains the element "None", which is no character.
None == <<"None">>

\* Python truthiness of an optional string: neither None nor ''.
Truthy(s) == s # None /\ s # <<>>

\* The printable ASCII characters in code-point order, starting at 32.  Code point
\* 96 (the grave accent) is never used in a modelled string; "grave" holds its
\* place.
Ascii ==
    <<" ", "!", "\"", "#", "$", "%", "&", "'", "(", ")", "*", "+", ",", "-", ".", "/",
      "0", "1", "2", "3", "4", "5", "6", "7", "8", "9", ":", ";", "<", "=", ">", "?",
      "@", "A", "B", "C", "D", "E", "F", "G", "H", "I", "J", "K", "L", "M", "N", "O",
      "P", "Q", "R", "S", "T", "U", "V", "W", "X", "Y", "Z", "[", "\\", "]", "^", "_",
      "grave", "a", "b", "c", "d", "e", "f", "g", "h", "i", "j", "k", "l", "m", "n", "o",
      "p", "q", "r", "s", "t", "u", "v", "w", "x", "y", "z", "{", "|", "}", "~">>

\* Every character a modelled string may hold.
Chars == {Ascii[i] : i \in 1..Len(Ascii)} \cup {"\t", "\n", "\r"}

\* ord(c): the code point of a character.
OrdOf ==
    [c \in Chars |->
        CASE c = "\t" -> 9
          [] c = "\n" -> 10
          [] c = "\r" -> 13
          [] OTHER -> 31 + (CHOOSE i \in 1..Len(Ascii) : Ascii[i] = c)]
Ord(c) == OrdOf[c]

Chr(n) == Ascii[n - 31]

IsUpper(c) == Ord(c) >= 65 /\ Ord(c) <= 90
IsAlnum(c) ==
    \/ (Ord(c) >= 48 /\ Ord(c) <= 57)
    \/ (Ord(c) >= 65 /\ Ord(c) <= 90)
    \/ (Ord(c) >= 97 /\ Ord(c) <= 122)

\* str.lower()
LowerOf == [c \in Chars |-> IF IsUpper(c) THEN Chr(Ord(c) + 32) ELSE c]
Lower(s) == [i \in 1..Len(s) |-> LowerOf[s[i]]]

\* The characters str.strip() removes when given no argument.
Whitespace == {" ", "\t", "\n", "\r"}

RECURSIVE LStrip(_, _)
LStrip(s, chars) ==
    IF s # <<>> /\ Head(s) \in chars THEN LStrip(Tail(s), chars) ELSE s

RECURSIVE RStrip(_, _)
RStrip(s, chars) ==
    IF s # <<>> /\ s[Len(s)] \in chars THEN RStrip(SubSeq(s, 1, Len(s) - 1), chars) ELSE s

\* str.strip(chars)
Strip(s, chars) == RStrip(LStrip(s, chars), chars)

\* str.startswith, str.endswith and the substring test (p in s)
StartsWith(s, p) == Len(s) >= Len(p) /\ SubSeq(s, 1, Len(p)) = p
EndsWith(s, p) == Len(s) >= Len(p) /\ SubSeq(s, Len(s) - Len(p) + 1, Len(s)) = p
MatchAt(s, p, i) == i >= 1 /\ i + Len(p) - 1 <= Len(s) /\ SubSeq(s, i, i + Len(p) - 1) = p
Contains(s, p) == \E i \in 1..(Len(s) + 1) : MatchAt(s, p, i)

\* str.find(p) + 1, and 0 when p does not occur; FindFrom starts looking at index k.
FindFrom(s, p, k) ==
    IF \E i \in k..(Len(s) + 1) : MatchAt(s, p, i)
    THEN CHOOSE i \in k..(Len(s) + 1) :
            MatchAt(s, p, i) /\ \A j \in k..(i - 1) : ~MatchAt(s, p, j)
    ELSE 0
Find(s, p) == FindFrom(s, p, 1)

\* str.rfind(p) + 1, and 0 when p does not occur.
RFind(s, p) ==
    IF Contains(s, p)
    THEN CHOOSE i \in 1..(Len(s) + 1) :
            MatchAt(s, p, i) /\ \A j \in (i + 1)..(Len(s) + 1) : ~MatchAt(s, p, j)
    ELSE 0

\* str.split(sep) for a one-character separator: always at least one piece.
RECURSIVE Split(_, _)
Split(s, sep) ==
    LET i == Find(s, <<sep>>)
    IN  IF i = 0 THEN <<s>>
        ELSE <<SubSeq(s, 1, i - 1)>> \o Split(SubSeq(s, i + 1, Len(s)), sep)

\* str.replace(old, new) for a one-character old.
RECURSIVE Replace1(_, _, _)
Replace1(s, old, new) ==
    IF s = <<>> THEN <<>>
    ELSE (IF Head(s) = old THEN new ELSE <<Head(s)>>) \o Replace1(Tail(s), old, new)

\* Lexicographic order of strings by code point, as Python compares str.
RECURSIVE StrLess(_, _)
StrLess(a, b) ==
    IF a = <<>> THEN b # <<>>
    ELSE IF b = <<>> THEN FALSE
    ELSE IF Head(a) = Head(b) THEN StrLess(Tail(a), Tail(b))
    ELSE Ord(Head(a)) < Ord(Head(b))

\* sorted(S) for a set of strings
RECURSIVE SortedOf(_)
SortedOf(S) ==
    IF S = {} THEN <<>>
    ELSE LET m == CHOOSE x \in S : \A y \in S \ {x} : StrLess(x, y)
         IN  <<m>> \o SortedOf(S \ {m})

\* sorted(list) for a list of strings (duplicates kept)
RECURSIVE Insert(_, _)
Insert(x, sorted) ==
    IF sorted = <<>> THEN <<x>>
    ELSE IF StrLess(Head(sorted), x) \/ Head(sorted) = x
         THEN <<Head(sorted)>> \o Insert(x, Tail(sorted))
         ELSE <<x>> \o sorted

RECURSIVE SortedList(_)
SortedList(seq) ==
    IF seq = <<>> THEN <<>> ELSE Insert(Head(seq), SortedList(Tail(seq)))

\* set(list)
SetOf(seq) == {seq[i] : i \in 1..Len(seq)}

\* The length of a longest common subsequence of a and b.
RECURSIVE LCS(_, _)
LCS(a, b) ==
    IF a = <<>> \/ b = <<>> THEN 0
    ELSE IF Head(a) = Head(b) THEN 1 + LCS(Tail(a), Tail(b))
    ELSE LET x == LCS(Tail(a), b)
             y == LCS(a, Tail(b))
         IN  IF x >= y THEN x ELSE y

\* Levenshtein.ratio(a, b) >= .8, the threshold taken as reached at .8.
Similar_AtLeast(a, b) ==
    LET lensum == Len(a) + Len(b)
    IN  IF lensum = 0 THEN TRUE ELSE 10 * LCS(a, b) >= 4 * lensum

\* Levenshtein.ratio(a, b) > .8.  The ratio is (lensum - ldist) / lensum with a
\* substitution costing 2, that is 2 * LCS / lensum, and 1.0 when both are empty.
Similar(a, b) ==
    LET lensum == Len(a) + Len(b)
    IN  IF lensum = 0 THEN TRUE ELSE 10 * LCS(a, b) > 4 * lensum

(***************************************************************************)
(* Cacheable, ModURL and the ModFile record                                *)
(***************************************************************************)

S_UNKNOWN == 0
S_CACHED == 1
S_NEW == 2
S_UPDATED == 3

\* A Python list and a Python set never compare equal, whatever they hold: the
\* two are kept apart by a tag.
PyList(seq) == [t |-> "list", v |-> seq]
PySet(S) == [t |-> "set", v |-> S]
PyEq(a, b) == a.t = b.t /\ a.v = b.v

\* sorted(x) for a list or a set of strings
Sorted(x) == IF x.t = "list" THEN SortedList(x.v) ELSE SortedOf(x.v)

\* Where the code holds either a ModURL or None, NoURL is the None.
NoURL == [text |-> None, url |-> None]

\* ModURL.__init__: split an annotated URL at its first pipe.
ModURL(link_text) ==
    IF Contains(link_text, <<"|">>)
    THEN LET i == Find(link_text, <<"|">>)
         IN  [text |-> SubSeq(link_text, 1, i - 1),
              url  |-> SubSeq(link_text, i + 1, Len(link_text))]
    ELSE [text |-> None, url |-> link_text]

\* ModURL.__str__
ModURL_str(self) ==
    IF Truthy(self.text) THEN self.text \o <<"|">> \o self.url ELSE self.url

\* ModURL.__eq__
ModURL_eq(self, other) ==
    IF other = NoURL THEN FALSE
    ELSE IF Truthy(self.url) /\ ~Truthy(other.url) THEN FALSE
    ELSE IF Truthy(other.url) /\ ~Truthy(self.url) THEN FALSE
    ELSE self.url = other.url /\ self.text = other.text

\* a != b where each is a ModURL or None (the default __ne__ inverts __eq__)
ModURL_ne(a, b) ==
    IF a = NoURL THEN b # NoURL ELSE ~ModURL_eq(a, b)

\* a != b for two lists of ModURL
ModURLs_ne(a, b) ==
    \/ Len(a) # Len(b)
    \/ \E i \in 1..Len(a) : ~ModURL_eq(a[i], b[i])

\* urllib.parse.quote with its default safe characters
Hex == <<"0", "1", "2", "3", "4", "5", "6", "7", "8", "9", "A", "B", "C", "D", "E", "F">>
QuoteChar(c) ==
    IF IsAlnum(c) \/ c \in {"_", ".", "-", "~", "/"} THEN <<c>>
    ELSE <<"%", Hex[(Ord(c) \div 16) + 1], Hex[(Ord(c) % 16) + 1]>>

RECURSIVE Quote(_)
Quote(s) == IF s = <<>> THEN <<>> ELSE QuoteChar(Head(s)) \o Quote(Tail(s))

\* html.escape
EscapeChar(c) ==
    CASE c = "&" -> <<"&", "a", "m", "p", ";">>
      [] c = "<" -> <<"&", "l", "t", ";">>
      [] c = ">" -> <<"&", "g", "t", ";">>
      [] c = "\"" -> <<"&", "q", "u", "o", "t", ";">>
      [] c = "'" -> <<"&", "#", "x", "2", "7", ";">>
      [] OTHER -> <<c>>

RECURSIVE Escape(_)
Escape(s) == IF s = <<>> THEN <<>> ELSE EscapeChar(Head(s)) \o Escape(Tail(s))

\* wiki_link_html(text, link) for an in-wiki link; wiki_link redirects to it.
wiki_link_html(text, link) ==
    <<"<", "a", " ", "h", "r", "e", "f", "=", "\"">>
        \o Quote(Replace1(link, "/", <<" ">>))
        \o <<"\"", ">">> \o Escape(text) \o <<"<", "/", "a", ">">>

\* ModFile.wiki_link
ModFile_wiki_link(self) == wiki_link_html(self.mod_title_display, self.wiki_filename_base)

\* ModFile.__init__ without a dirinfo: the record Cacheable.unserialize and the
\* tests start from.
ModFile(mtime, initial_status, game) ==
    [ mtime |-> mtime,
      status |-> initial_status,
      mod_title |-> None,
      mod_title_display |-> None,
      wiki_filename_base |-> None,
      mod_desc |-> <<>>,
      readme_rel |-> None,
      readme_desc |-> <<>>,
      nexus_link |-> NoURL,
      screenshots |-> <<>>,
      youtube_urls |-> <<>>,
      urls |-> <<>>,
      categories |-> {},
      changelog |-> <<>>,
      related_links |-> PyList(<<>>),
      game |-> game,
      seen |-> FALSE,
      full_filename |-> None,
      rel_path |-> None,
      rel_filename |-> None,
      mod_author |-> None ]

\* ModFile._serialize
ModFile_serialize(self) ==
    [ ff |-> self.full_filename,
      rp |-> self.rel_path,
      rf |-> self.rel_filename,
      w |-> self.wiki_filename_base,
      a |-> self.mod_author,
      t |-> self.mod_title,
      i |-> self.mod_title_display,
      d |-> self.mod_desc,
      r |-> self.readme_desc,
      l |-> self.readme_rel,
      o |-> self.changelog,
      e |-> Sorted(self.related_links),
      n |-> IF self.nexus_link # NoURL THEN ModURL_str(self.nexus_link) ELSE None,
      s |-> [k \in 1..Len(self.screenshots) |-> ModURL_str(self.screenshots[k])],
      y |-> [k \in 1..Len(self.youtube_urls) |-> ModURL_str(self.youtube_urls[k])],
      u |-> [k \in 1..Len(self.urls) |-> ModURL_str(self.urls[k])],
      c |-> SortedOf(self.categories),
      g |-> self.game ]

\* ModFile.has_errors is Cacheable's: a ModFile never reports errors.
ModFile_has_errors(self) == FALSE

\* Cacheable.serialize
Cacheable_serialize(self) ==
    ModFile_serialize(self) @@ ("m" :> IF ModFile_has_errors(self) THEN 0 ELSE self.mtime)

\* ModFile._unserialize
ModFile_unserialize(self, input_dict) ==
    [ self EXCEPT
        !.full_filename = input_dict.ff,
        !.rel_path = input_dict.rp,
        !.rel_filename = input_dict.rf,
        !.wiki_filename_base = input_dict.w,
        !.mod_author = input_dict.a,
        !.mod_title = input_dict.t,
        !.mod_title_display = input_dict.i,
        !.mod_desc = input_dict.d,
        !.readme_desc = input_dict.r,
        !.readme_rel = input_dict.l,
        !.changelog = input_dict.o,
        !.related_links = PySet(SetOf(input_dict.e)),
        !.nexus_link = IF Truthy(input_dict.n) THEN ModURL(input_dict.n) ELSE NoURL,
        !.screenshots = [k \in 1..Len(input_dict.s) |-> ModURL(input_dict.s[k])],
        !.youtube_urls = [k \in 1..Len(input_dict.y) |-> ModURL(input_dict.y[k])],
        !.urls = [k \in 1..Len(input_dict.u) |-> ModURL(input_dict.u[k])],
        !.categories = SetOf(input_dict.c),
        !.game = input_dict.g ]

\* Cacheable.unserialize(ModFile, input_dict)
Cacheable_unserialize(input_dict) ==
    ModFile_unserialize(ModFile(input_dict.m, S_CACHED, None), input_dict)

\* StatusAfter without the guard that keeps S_NEW.
StatusAfter_NoNewGuard(status, changed) ==
    IF changed THEN S_UPDATED ELSE status

\* The status a setter leaves behind: S_UPDATED on a change, unless S_NEW.
StatusAfter(status, changed) ==
    IF changed /\ status # S_NEW THEN S_UPDATED ELSE status

\* ModFile.set_categories
set_categories(self, categories) ==
    LET new_cats == SetOf(categories)
    IN  IF new_cats # self.categories
        THEN [self EXCEPT !.seen = TRUE,
                          !.status = StatusAfter(@, TRUE),
                          !.categories = new_cats]
        ELSE [self EXCEPT !.seen = TRUE]

\* ModFile.set_title_display
set_title_display(self, mod_title_display) ==
    IF mod_title_display # self.mod_title_display
    THEN [self EXCEPT !.seen = TRUE,
                      !.status = StatusAfter(@, TRUE),
                      !.mod_title_display = mod_title_display]
    ELSE [self EXCEPT !.seen = TRUE]

\* ModFile.set_wiki_filename_base
set_wiki_filename_base(self, wiki_filename_base) ==
    IF wiki_filename_base # self.wiki_filename_base
    THEN [self EXCEPT !.seen = TRUE,
                      !.status = StatusAfter(@, TRUE),
                      !.wiki_filename_base = wiki_filename_base]
    ELSE [self EXCEPT !.seen = TRUE]

\* The list comprehension of set_related_links: one link per related mod, in the
\* set's iteration order (sorted afterwards, so the order chosen here is immaterial).
RECURSIVE LinksOf(_)
LinksOf(related_mods) ==
    IF related_mods = {} THEN <<>>
    ELSE LET m == CHOOSE x \in related_mods : TRUE
         IN  <<ModFile_wiki_link(m) \o <<",", " ", "b", "y", " ">> \o m.mod_author>>
                \o LinksOf(related_mods \ {m})

\* The link list set_related_links builds from the other mods sharing the title.
RelatedLinks(related_mods) == SortedList(LinksOf(related_mods))

\* ModFile.set_related_links (it does not touch seen)
set_related_links(self, related_mods) ==
    LET new_links == PyList(RelatedLinks(related_mods))
    IN  IF ~PyEq(new_links, self.related_links)
        THEN [self EXCEPT !.status = StatusAfter(@, TRUE),
                          !.related_links = new_links]
        ELSE self

\* The loop of set_urls: file each URL under the first heading it matches.
RECURSIVE SortUrls(_, _)
SortUrls(urls, acc) ==
    IF urls = <<>> THEN acc
    ELSE LET url == Head(urls)
             url_lower == Lower(url)
             isNexus == Contains(url_lower, <<"n", "e", "x", "u", "s", "m", "o", "d", "s", ".", "c", "o", "m">>)
             isVideo ==
                \/ Contains(url_lower, <<"y", "o", "u", "t", "u", "b", "e", ".", "c", "o", "m">>)
                \/ Contains(url_lower, <<"y", "o", "u", "t", "u", ".", "b", "e">>)
             isShot ==
                \/ EndsWith(url_lower, <<".", "j", "p", "g">>)
                \/ EndsWith(url_lower, <<".", "p", "n", "g">>)
                \/ EndsWith(url_lower, <<".", "g", "i", "f">>)
         IN  SortUrls(Tail(urls),
                IF isNexus THEN [acc EXCEPT !.nexus_link = ModURL(url)]
                ELSE IF isVideo THEN [acc EXCEPT !.youtube_urls = Append(@, ModURL(url))]
                ELSE IF isShot THEN [acc EXCEPT !.screenshots = Append(@, ModURL(url))]
                ELSE [acc EXCEPT !.urls = Append(@, ModURL(url))])

\* ModFile.set_urls
set_urls(self, urls) ==
    LET new == SortUrls(urls, [nexus_link |-> NoURL, screenshots |-> <<>>,
                               youtube_urls |-> <<>>, urls |-> <<>>])
        changed ==
            \/ ModURL_ne(new.nexus_link, self.nexus_link)
            \/ ModURLs_ne(new.screenshots, self.screenshots)
            \/ ModURLs_ne(new.youtube_urls, self.youtube_urls)
            \/ ModURLs_ne(new.urls, self.urls)
    IN  [self EXCEPT !.seen = TRUE,
                     !.status = StatusAfter(@, changed),
                     !.screenshots = new.screenshots,
                     !.nexus_link = new.nexus_link,
                     !.youtube_urls = new.youtube_urls,
                     !.urls = new.urls]

\* ModFile.update_readme_desc; readme_rel_filename is readme.rel_filename, or None
\* when no readme is given.
update_readme_desc(self, readme_rel_filename, new_desc) ==
    LET new_readme_rel == readme_rel_filename
        changed == new_desc # self.readme_desc \/ new_readme_rel # self.readme_rel
    IN  [self EXCEPT !.seen = TRUE,
                     !.status = StatusAfter(@, changed),
                     !.readme_desc = new_desc,
                     !.readme_rel = new_readme_rel]

\* update_changelog without the comparison with the stored changelog.
update_changelog_AlwaysUpdated(self, new_changelog) ==
    [self EXCEPT !.seen = TRUE,
                 !.status = StatusAfter(@, TRUE),
                 !.changelog = new_changelog]

\* ModFile.update_changelog
update_changelog(self, new_changelog) ==
    [self EXCEPT !.seen = TRUE,
                 !.status = StatusAfter(@, new_changelog # self.changelog),
                 !.changelog = new_changelog]

(***************************************************************************)
(* The cache protocol: a record, the data setters the run applies to it,   *)
(* and the save / load cycle between two runs.                             *)
(***************************************************************************)

\* Sample values the orchestrator hands to the setters.
Cat_qol == <<"q", "o", "l">>
Cat_scaling == <<"s", "c", "a", "l", "i", "n", "g">>
CategoryInputs == { <<>>, <<Cat_qol, Cat_scaling>> }

TitleDisplayInputs == { <<"M">>, <<"M", " ", "-", " ", "B">> }
WikiFilenameInputs == { <<"M", " ", "b", "y", " ", "x">> }

Url_nexus1 == <<"n", "e", "x", "u", "s", "m", "o", "d", "s", ".", "c", "o", "m", "/", "1">>
Url_nexus2 == <<"b", "|", "n", "e", "x", "u", "s", "m", "o", "d", "s", ".", "c", "o", "m", "/", "2">>
Url_shot == <<"|", "a", ".", "p", "n", "g">>
Url_video == <<"y", "o", "u", "t", "u", ".", "b", "e", "/", "v">>
Url_other == <<"|", "a", "|", "b">>
UrlListInputs ==
    { <<>>, <<Url_nexus1, Url_nexus2>>, <<Url_nexus2>>, <<Url_shot>>, <<Url_video, Url_other>> }

ReadmeRelInputs == { None, <<"R">> }
DescInputs == { <<>>, << <<"x">> >> }

\* The other mods sharing a title, as name resolution has just named them.
Other_A == [mod_title_display |-> <<"M">>, wiki_filename_base |-> <<"M", "/", "a">>,
            mod_author |-> <<"a">>]
Other_B == [mod_title_display |-> <<"M", "&">>, wiki_filename_base |-> <<"M", " ", "b">>,
            mod_author |-> <<"b">>]
RelatedInputs == { {}, {Other_A, Other_B} }

\* A record as FileCache.load stores it after parsing a file (S_NEW for a file not
\* in the cache, S_UPDATED for one whose mtime changed), or as the bare
\* constructor leaves it (S_UNKNOWN, the default).
ParsedRecord(initial_status) ==
    [ ModFile(1, initial_status, <<"B", "L", "3">>) EXCEPT
        !.seen = TRUE,
        !.full_filename = <<"/", "r", "/", "B", "/", "a", "/", "m">>,
        !.rel_path = <<"B", "/", "a">>,
        !.rel_filename = <<"m">>,
        !.mod_author = <<"a">>,
        !.mod_title = <<"M">>,
        !.mod_desc = << <<"d">>, <<>>, <<"e">> >> ]

NoOp == [name |-> "init", pre |-> S_UNKNOWN, loaded |-> FALSE]

SetterNames ==
    { "set_categories", "set_urls", "update_readme_desc", "update_changelog",
      "set_title_display", "set_wiki_filename_base", "set_related_links" }

CacheInit ==
    /\ cabinet = <<>>
    /\ run = <<>>
    /\ cache = <<>>
    /\ fs = <<>>
    /\ mod \in { ModFile(0, S_UNKNOWN, None), ParsedRecord(S_NEW), ParsedRecord(S_UPDATED) }
    /\ op = NoOp
    /\ error_list = <<>>
    /\ df = <<>>
    /\ readme = <<>>
    /\ rd = <<>>

Called(name) == [name |-> name, pre |-> mod.status, loaded |-> op.loaded]

SetCategories ==
    \E categories \in CategoryInputs :
        /\ mod' = set_categories(mod, categories)
        /\ op' = Called("set_categories")
        /\ UNCHANGED <<cabinet, run, cache, fs, error_list, df, readme, rd>>

SetTitleDisplay ==
    \E t \in TitleDisplayInputs :
        /\ mod' = set_title_display(mod, t)
        /\ op' = Called("set_title_display")
        /\ UNCHANGED <<cabinet, run, cache, fs, error_list, df, readme, rd>>

SetWikiFilenameBase ==
    \E w \in WikiFilenameInputs :
        /\ mod' = set_wiki_filename_base(mod, w)
        /\ op' = Called("set_wiki_filename_base")
        /\ UNCHANGED <<cabinet, run, cache, fs, error_list, df, readme, rd>>

SetRelatedLinks ==
    \E related_mods \in RelatedInputs :
        /\ mod' = set_related_links(mod, related_mods)
        /\ op' = Called("set_related_links")
        /\ UNCHANGED <<cabinet, run, cache, fs, error_list, df, readme, rd>>

SetUrls ==
    \E urls \in UrlListInputs :
        /\ mod' = set_urls(mod, urls)
        /\ op' = Called("set_urls")
        /\ UNCHANGED <<cabinet, run, cache, fs, error_list, df, readme, rd>>

UpdateReadmeDesc ==
    \E rel \in ReadmeRelInputs, new_desc \in DescInputs :
        /\ (rel = None => new_desc = <<>>)
        /\ mod' = update_readme_desc(mod, rel, new_desc)
        /\ op' = Called("update_readme_desc")
        /\ UNCHANGED <<cabinet, run, cache, fs, error_list, df, readme, rd>>

UpdateChangelog ==
    \E new_changelog \in DescInputs :
        /\ mod' = update_changelog(mod, new_changelog)
        /\ op' = Called("update_changelog")
        /\ UNCHANGED <<cabinet, run, cache, fs, error_list, df, readme, rd>>

\* The end of one run and the start of the next: FileCache.save serializes the
\* record and FileCache.__init__ restores it with Cacheable.unserialize.
SaveAndLoad ==
    /\ mod' = Cacheable_unserialize(Cacheable_serialize(mod))
    /\ op' = [name |-> "unserialize", pre |-> mod.status, loaded |-> TRUE]
    /\ UNCHANGED <<cabinet, run, cache, fs, error_list, df, readme, rd>>

CacheNext ==
    \/ SetCategories
    \/ SetTitleDisplay
    \/ SetWikiFilenameBase
    \/ SetRelatedLinks
    \/ SetUrls
    \/ UpdateReadmeDesc
    \/ UpdateChangelog
    \/ SaveAndLoad

SpecCache == CacheInit /\ [][CacheNext]_vars

(***************************************************************************)
(* Properties of the cache protocol (checked under SpecCache)             *)
(***************************************************************************)

\* Two records agree on every field ModFile._serialize persists, and on mtime.
C8_SamePersisted(a, b) ==
    /\ a.full_filename = b.full_filename
    /\ a.rel_path = b.rel_path
    /\ a.rel_filename = b.rel_filename
    /\ a.mod_author = b.mod_author
    /\ a.mod_title = b.mod_title
    /\ a.mod_title_display = b.mod_title_display
    /\ a.wiki_filename_base = b.wiki_filename_base
    /\ a.mod_desc = b.mod_desc
    /\ a.readme_desc = b.readme_desc
    /\ a.readme_rel = b.readme_rel
    /\ a.changelog = b.changelog
    /\ PyEq(a.related_links, b.related_links)
    /\ a.nexus_link = b.nexus_link
    /\ a.screenshots = b.screenshots
    /\ a.youtube_urls = b.youtube_urls
    /\ a.urls = b.urls
    /\ a.categories = b.categories
    /\ a.game = b.game
    /\ a.mtime = b.mtime

\* C8: Cacheable.unserialize(ModFile, r.serialize()) equals r on every persisted
\* field, keeping absent apart from empty and keeping each URL's label/url split.
C8_RoundTrip ==
    [][op'.name = "unserialize" => C8_SamePersisted(mod', mod)]_vars

\* C9: over any sequence of setter calls the status only moves forward: S_NEW
\* stays S_NEW, S_UPDATED stays S_UPDATED, S_CACHED stays or becomes S_UPDATED,
\* no setter sets S_CACHED; and only a record loaded from the persisted cache
\* has status S_CACHED.
C9_StatusForward ==
    /\ [][op'.name \in SetterNames =>
            /\ (mod.status = S_NEW => mod'.status = S_NEW)
            /\ (mod.status = S_UPDATED => mod'.status = S_UPDATED)
            /\ (mod.status = S_CACHED => mod'.status \in {S_CACHED, S_UPDATED})
            /\ (mod'.status = S_CACHED => mod.status = S_CACHED)]_vars
    /\ [](mod.status = S_CACHED => op.loaded)

\* A setter has just moved a record loaded from the cache from S_CACHED to
\* S_UPDATED.
C9_Witness ==
    /\ op.name \in SetterNames
    /\ op.loaded
    /\ op.pre = S_CACHED
    /\ mod.status = S_UPDATED

\* The status the contract of C10 asks for.
C10_Status(status, differs) ==
    IF differs THEN (IF status = S_NEW THEN S_NEW ELSE S_UPDATED) ELSE status

\* Every field outside F keeps its value over the step.
C10_Frame(F) == \A f \in (DOMAIN mod) \ (F \cup {"seen", "status"}) : mod'[f] = mod[f]

C10_IsNexus(u) == Contains(Lower(u), <<"n", "e", "x", "u", "s", "m", "o", "d", "s", ".", "c", "o", "m">>)
C10_IsVideo(u) ==
    /\ ~C10_IsNexus(u)
    /\ \/ Contains(Lower(u), <<"y", "o", "u", "t", "u", "b", "e", ".", "c", "o", "m">>)
       \/ Contains(Lower(u), <<"y", "o", "u", "t", "u", ".", "b", "e">>)
C10_IsShot(u) ==
    /\ ~C10_IsNexus(u)
    /\ ~C10_IsVideo(u)
    /\ \E ext \in { <<".", "j", "p", "g">>, <<".", "p", "n", "g">>, <<".", "g", "i", "f">> } :
            EndsWith(Lower(u), ext)
C10_IsOther(u) == ~C10_IsNexus(u) /\ ~C10_IsVideo(u) /\ ~C10_IsShot(u)
C10_Parsed(seq) == [k \in 1..Len(seq) |-> ModURL(seq[k])]

\* The value set_urls is given: its URL list filed under the four URL fields (the
\* nexus link is the last nexus URL of the list).
C10_UrlValue(urls) ==
    LET nexus == SelectSeq(urls, C10_IsNexus)
    IN  [ nexus_link |-> IF nexus = <<>> THEN NoURL ELSE ModURL(nexus[Len(nexus)]),
          screenshots |-> C10_Parsed(SelectSeq(urls, C10_IsShot)),
          youtube_urls |-> C10_Parsed(SelectSeq(urls, C10_IsVideo)),
          urls |-> C10_Parsed(SelectSeq(urls, C10_IsOther)) ]

C10_UrlStored(m) ==
    [ nexus_link |-> m.nexus_link, screenshots |-> m.screenshots,
      youtube_urls |-> m.youtube_urls, urls |-> m.urls ]

C3_NexusUrls(urls) == SelectSeq(urls, C10_IsNexus)

\* C3: when the input supplies a second value for a singleton field (here the
\* nexus link, through set_urls) the first value is kept and exactly one error
\* containing 'More than one' is appended.
C3_FirstValueKept ==
    [][\A urls \in UrlListInputs :
          (/\ op'.name = "set_urls"
           /\ mod' = set_urls(mod, urls)
           /\ Len(C3_NexusUrls(urls)) >= 2) =>
                /\ mod'.nexus_link = ModURL(C3_NexusUrls(urls)[1])
                /\ Len(error_list') = Len(error_list) + 1
                /\ error_list'[Len(error_list')].msg = "More than one"
      ]_vars

\* The links a related_links value holds, as a set
C24_Links(x) == IF x.t = "list" THEN SetOf(x.v) ELSE x.v

\* C24: set_related_links on a record restored from the cache leaves the status
\* S_CACHED when the links it builds are the stored ones, no link at all
\* included, and makes it S_UPDATED only when the set of links differs.
C24_RelatedLinksKept ==
    [][(/\ op'.name = "set_related_links"
        /\ op.name = "unserialize"
        /\ mod.status = S_CACHED)
       => mod'.status = IF C24_Links(mod'.related_links) # C24_Links(mod.related_links)
                        THEN S_UPDATED ELSE S_CACHED]_vars

(***************************************************************************)
(* Extraction: ModFile.__init__ on a file, and the three extractors        *)
(***************************************************************************)

\* The characters add_comment_line strips from both ends of a comment line, and
\* the characters of which a leading line of header art is made.
CommentChars == {"/", "#", "\n", "\r", "\t", " "}
ArtChars == {"[", "]", "_", "/", "\\", ".", ":", "|", "#", "~", " ", "\t"}

\* add_comment_line without the test for an empty line after an empty entry.
add_comment_line_NoDoubleCheck(self, comment_line, match_title) ==
    LET line == Strip(comment_line, CommentChars)
        n == Len(self.mod_desc)
    IN  IF line = <<>> /\ n = 0 THEN self
        ELSE IF n = 0 /\ Strip(line, ArtChars) = <<>> THEN self
        ELSE IF /\ ~Truthy(self.mod_title)
                /\ Truthy(match_title)
                /\ n = 0
                /\ Similar(Lower(match_title), Lower(line))
             THEN [self EXCEPT !.mod_title = line]
        ELSE [self EXCEPT !.mod_desc = Append(@, line)]

\* ModFile.add_comment_line
add_comment_line(self, comment_line, match_title) ==
    LET line == Strip(comment_line, CommentChars)
        n == Len(self.mod_desc)
    IN  IF line = <<>> /\ n = 0 THEN self
        ELSE IF n > 0 /\ self.mod_desc[n] = <<>> /\ line = <<>> THEN self
        ELSE IF n = 0 /\ Strip(line, ArtChars) = <<>> THEN self
        ELSE IF /\ ~Truthy(self.mod_title)
                /\ Truthy(match_title)
                /\ n = 0
                /\ Similar(Lower(match_title), Lower(line))
             THEN [self EXCEPT !.mod_title = line]
        ELSE [self EXCEPT !.mod_desc = Append(@, line)]

\* str.replace(old, new) for any non-empty old
RECURSIVE Replace(_, _, _)
Replace(s, old, new) ==
    IF s = <<>> THEN <<>>
    ELSE IF StartsWith(s, old) THEN new \o Replace(SubSeq(s, Len(old) + 1, Len(s)), old, new)
    ELSE <<Head(s)>> \o Replace(Tail(s), old, new)

\* The regular expressions below are searched in one line at a time; a line holds
\* a newline at its end only, so a dot never has to stop before one mid-line and
\* the leftmost opening is the only one that can start a match.

\* re.search('<category name="(.*?)"(>| MUT=)', line).group(1), None without match
Search_blcmm_cat(line) ==
    LET open == <<"<", "c", "a", "t", "e", "g", "o", "r", "y", " ", "n", "a", "m", "e", "=", "\"">>
        i == Find(line, open)
        start == i + Len(open)
        ends == {k \in start..Len(line) :
                    MatchAt(line, <<"\"", ">">>, k) \/ MatchAt(line, <<"\"", " ", "M", "U", "T", "=">>, k)}
    IN  IF i = 0 \/ ends = {} THEN None
        ELSE SubSeq(line, start, (CHOOSE k \in ends : \A j \in ends : k <= j) - 1)

\* re.search('<comment>(.*)</comment>', line).group(1), None without match
Search_comment(line) ==
    LET open == <<"<", "c", "o", "m", "m", "e", "n", "t", ">">>
        i == Find(line, open)
        start == i + Len(open)
        e == RFind(line, <<"<", "/", "c", "o", "m", "m", "e", "n", "t", ">">>)
    IN  IF i = 0 \/ e < start THEN None ELSE SubSeq(line, start, e - 1)

\* re.search('#<(.*?)>', line).group(1), None without match
Search_ft_cat(line) ==
    LET i == Find(line, <<"#", "<">>)
        k == IF i = 0 THEN 0 ELSE FindFrom(line, <<">">>, i + 2)
    IN  IF i = 0 \/ k = 0 THEN None ELSE SubSeq(line, i + 2, k - 1)

\* os.path.split(full_filename)[-1].rsplit('.', 1)[0]
temp_mod_name(full_filename) ==
    LET slash == RFind(full_filename, <<"/">>)
        base == SubSeq(full_filename, slash + 1, Len(full_filename))
        dot == RFind(base, <<".">>)
    IN  IF dot = 0 THEN base ELSE SubSeq(base, 1, dot - 1)

\* The loop of load_blcmm when a line without a comment does not end the
\* reading of comments.
RECURSIVE load_blcmm_loop_NoStop(_, _, _, _)
load_blcmm_loop_NoStop(self, lines, finding_main_cat, reading_comments) ==
    IF lines = <<>> THEN self
    ELSE LET line == Head(lines)
             cat == Search_blcmm_cat(line)
             comment == Search_comment(line)
         IN  IF finding_main_cat
             THEN IF cat # None
                  THEN load_blcmm_loop_NoStop(
                          [self EXCEPT !.mod_title =
                              Replace(Strip(cat, Whitespace), <<"\\", "\"">>, <<"\"">>)],
                          Tail(lines), FALSE, reading_comments)
                  ELSE load_blcmm_loop_NoStop(self, Tail(lines), TRUE, reading_comments)
             ELSE IF comment # None
                  THEN load_blcmm_loop_NoStop(add_comment_line(self, comment, None),
                                              Tail(lines), FALSE, TRUE)
                  ELSE load_blcmm_loop_NoStop(self, Tail(lines), FALSE, reading_comments)

\* The loop of load_blcmm over the lines not yet read.
RECURSIVE load_blcmm_loop(_, _, _, _)
load_blcmm_loop(self, lines, finding_main_cat, reading_comments) ==
    IF lines = <<>> THEN self
    ELSE LET line == Head(lines)
             cat == Search_blcmm_cat(line)
             comment == Search_comment(line)
         IN  IF finding_main_cat
             THEN IF cat # None
                  THEN load_blcmm_loop(
                          [self EXCEPT !.mod_title =
                              Replace(Strip(cat, Whitespace), <<"\\", "\"">>, <<"\"">>)],
                          Tail(lines), FALSE, reading_comments)
                  ELSE load_blcmm_loop(self, Tail(lines), TRUE, reading_comments)
             ELSE IF reading_comments
             THEN IF comment # None
                  THEN load_blcmm_loop(add_comment_line(self, comment, None),
                                       Tail(lines), FALSE, TRUE)
                  ELSE self
             ELSE IF comment # None
                  THEN load_blcmm_loop(add_comment_line(self, comment, None),
                                       Tail(lines), FALSE, TRUE)
                  ELSE load_blcmm_loop(self, Tail(lines), FALSE, FALSE)

\* ModFile.load_blcmm: reads on from the file's current position.
load_blcmm(self, f) ==
    load_blcmm_loop(self, SubSeq(f.lines, f.pos + 1, Len(f.lines)), TRUE, FALSE)

\* The loop of load_ft when every nested tag ends the reading, a description
\* sub-category as well.
RECURSIVE load_ft_loop_NoDescription(_, _, _)
load_ft_loop_NoDescription(self, lines, finding_main_cat) ==
    IF lines = <<>> THEN self
    ELSE LET line == Head(lines)
             cat == Search_ft_cat(line)
             title == Strip(cat, Whitespace)
             stripped == Strip(line, Whitespace)
         IN  IF finding_main_cat
             THEN IF cat # None
                  THEN load_ft_loop_NoDescription(
                          [self EXCEPT !.mod_title =
                              IF Lower(title) = <<"p", "a", "t", "c", "h">> \/ Lower(title) = <<"m", "o", "d">>
                              THEN temp_mod_name(self.full_filename)
                              ELSE title],
                          Tail(lines), FALSE)
                  ELSE load_ft_loop_NoDescription(self, Tail(lines), TRUE)
             ELSE IF cat # None THEN self
             ELSE IF StartsWith(stripped, <<"s", "e", "t", " ">>) THEN self
             ELSE IF stripped # <<>>
                  THEN load_ft_loop_NoDescription(add_comment_line(self, line, None), Tail(lines), FALSE)
             ELSE load_ft_loop_NoDescription(self, Tail(lines), FALSE)

\* The loop of load_ft when a closing tag ends the reading whatever its label.
RECURSIVE load_ft_loop_CloseEnds(_, _, _)
load_ft_loop_CloseEnds(self, lines, finding_main_cat) ==
    IF lines = <<>> THEN self
    ELSE LET line == Head(lines)
             cat == Search_ft_cat(line)
             title == Strip(cat, Whitespace)
             stripped == Strip(line, Whitespace)
         IN  IF finding_main_cat
             THEN IF cat # None
                  THEN load_ft_loop_CloseEnds(
                          [self EXCEPT !.mod_title =
                              IF Lower(title) = <<"p", "a", "t", "c", "h">> \/ Lower(title) = <<"m", "o", "d">>
                              THEN temp_mod_name(self.full_filename)
                              ELSE title],
                          Tail(lines), FALSE)
                  ELSE load_ft_loop_CloseEnds(self, Tail(lines), TRUE)
             ELSE IF ~Contains(line, <<"#", "<", "h", "o", "t", "f", "i", "x", ">">>) /\ cat # None
                  THEN IF StartsWith(cat, <<"/">>)
                          \/ ~Contains(Lower(cat), <<"d", "e", "s", "c", "r", "i", "p", "t", "i", "o", "n">>)
                       THEN self
                       ELSE load_ft_loop_CloseEnds(self, Tail(lines), FALSE)
             ELSE IF StartsWith(stripped, <<"s", "e", "t", " ">>) THEN self
             ELSE IF StartsWith(stripped, <<"#", "<", "h", "o", "t", "f", "i", "x", ">">>) THEN self
             ELSE IF stripped # <<>>
                  THEN load_ft_loop_CloseEnds(add_comment_line(self, line, None), Tail(lines), FALSE)
             ELSE load_ft_loop_CloseEnds(self, Tail(lines), FALSE)

\* The loop of load_ft.
RECURSIVE load_ft_loop(_, _, _)
load_ft_loop(self, lines, finding_main_cat) ==
    IF lines = <<>> THEN self
    ELSE LET line == Head(lines)
             cat == Search_ft_cat(line)
             title == Strip(cat, Whitespace)
             stripped == Strip(line, Whitespace)
         IN  IF finding_main_cat
             THEN IF cat # None
                  THEN load_ft_loop(
                          [self EXCEPT !.mod_title =
                              IF Lower(title) = <<"p", "a", "t", "c", "h">> \/ Lower(title) = <<"m", "o", "d">>
                              THEN temp_mod_name(self.full_filename)
                              ELSE title],
                          Tail(lines), FALSE)
                  ELSE load_ft_loop(self, Tail(lines), TRUE)
             ELSE IF ~Contains(line, <<"#", "<", "h", "o", "t", "f", "i", "x", ">">>) /\ cat # None
                  THEN IF ~Contains(Lower(cat), <<"d", "e", "s", "c", "r", "i", "p", "t", "i", "o", "n">>)
                       THEN self
                       ELSE load_ft_loop(self, Tail(lines), FALSE)
             ELSE IF StartsWith(stripped, <<"s", "e", "t", " ">>) THEN self
             ELSE IF StartsWith(stripped, <<"#", "<", "h", "o", "t", "f", "i", "x", ">">>) THEN self
             ELSE IF stripped # <<>>
                  THEN load_ft_loop(add_comment_line(self, line, None), Tail(lines), FALSE)
             ELSE load_ft_loop(self, Tail(lines), FALSE)

\* ModFile.load_ft: rewinds the file first.
load_ft(self, f) == load_ft_loop(self, f.lines, TRUE)

\* The loop of load_unknown.
RECURSIVE load_unknown_loop(_, _)
load_unknown_loop(self, lines) ==
    IF lines = <<>> THEN self
    ELSE LET stripped == Strip(Head(lines), Whitespace)
         IN  IF StartsWith(stripped, <<"s", "e", "t", " ">>) \/ StartsWith(stripped, <<"#", "<">>)
             THEN self
             ELSE load_unknown_loop(
                     add_comment_line(self, Head(lines), temp_mod_name(self.full_filename)),
                     Tail(lines))

\* ModFile.load_unknown: rewinds the file first.  The file name of a modelled
\* file has a non-empty stem, so the title is never '' where it is indexed.
load_unknown(self, f) ==
    LET looped == load_unknown_loop(self, f.lines)
        named == IF ~Truthy(looped.mod_title)
                 THEN [looped EXCEPT !.mod_title = temp_mod_name(self.full_filename)]
                 ELSE looped
        t == named.mod_title
    IN  IF t[1] = "<" /\ t[Len(t)] = ">"
        THEN [named EXCEPT !.mod_title = SubSeq(t, 2, Len(t) - 1)]
        ELSE named

\* file.readline(): the next line, '' at the end of the file; and the file after it
ReadLine(f) == IF f.pos < Len(f.lines) THEN f.lines[f.pos + 1] ELSE <<>>
AfterReadLine(f) == IF f.pos < Len(f.lines) THEN [f EXCEPT !.pos = @ + 1] ELSE f

\* FirstLine when every blank line at the head of the file is skipped.
RECURSIVE FirstLine_SkipAllBlank(_)
FirstLine_SkipAllBlank(f) ==
    IF f.pos < Len(f.lines) /\ Strip(ReadLine(f), Whitespace) = <<>>
    THEN FirstLine_SkipAllBlank(AfterReadLine(f))
    ELSE [line |-> ReadLine(f), f |-> AfterReadLine(f)]

\* The line ModFile.__init__ decides on, and the file as the extractor gets it.
FirstLine(f) ==
    IF Strip(ReadLine(f), Whitespace) = <<>>
    THEN [line |-> ReadLine(AfterReadLine(f)), f |-> AfterReadLine(AfterReadLine(f))]
    ELSE [line |-> ReadLine(f), f |-> AfterReadLine(f)]

\* The extractor ModFile.__init__ hands the file to.
Extractor(f) ==
    LET first_line == FirstLine(f).line
    IN  IF Contains(first_line, <<"<", "B", "L", "C", "M", "M">>) THEN "load_blcmm"
        ELSE IF StartsWith(first_line, <<"#", "<">>) THEN "load_ft"
        ELSE "load_unknown"

\* The loop that drops the empty entries at the end of the description.
RECURSIVE PopEmpty(_)
PopEmpty(mod_desc) ==
    IF mod_desc[Len(mod_desc)] = <<>>
    THEN PopEmpty(SubSeq(mod_desc, 1, Len(mod_desc) - 1))
    ELSE mod_desc

\* ModFile.__init__ with a dirinfo: the record read from the file f of the
\* directory Dir_author.
Dir_author == <<"A">>
ModFile_load(mtime, f, initial_status, game) ==
    LET self == [ModFile(mtime, initial_status, game) EXCEPT
                    !.seen = TRUE,
                    !.full_filename = Dir_author \o <<"/">> \o f.name,
                    !.rel_path = Dir_author,
                    !.rel_filename = f.name,
                    !.mod_author = Dir_author]
        at == FirstLine(f).f
        loaded == CASE Extractor(f) = "load_blcmm" -> load_blcmm(self, at)
                    [] Extractor(f) = "load_ft" -> load_ft(self, at)
                    [] OTHER -> load_unknown(self, at)
    IN  IF Len(loaded.mod_desc) > 0
        THEN [loaded EXCEPT !.mod_desc = PopEmpty(@)]
        ELSE loaded

(***************************************************************************)
(* Specification SpecCtor: FileCache.load constructs a ModFile from a file *)
(***************************************************************************)

MaxLines == 3

Line_blank == <<"\n">>
Line_blcmm == <<"<", "B", "L", "C", "M", "M", " ", "v", "=", "\"", "1", "\"", ">", "\n">>
Line_category == <<"<", "c", "a", "t", "e", "g", "o", "r", "y", " ", "n", "a", "m", "e", "=", "\"", "T", "\"", ">", "\n">>
Line_comment == <<"<", "c", "o", "m", "m", "e", "n", "t", ">", "c", "<", "/", "c", "o", "m", "m", "e", "n", "t", ">", "\n">>
Line_ft == <<"#", "<", "T", ">", "\n">>
Line_set == <<"s", "e", "t", " ", "a", " ", "b", " ", "c", "\n">>
Line_text == <<"M", "\n">>
FileLines ==
    {Line_blank, Line_blcmm, Line_category, Line_comment, Line_ft, Line_set, Line_text}

RECURSIVE SeqsUpTo(_, _)
SeqsUpTo(S, n) ==
    IF n = 0 THEN {<<>>}
    ELSE LET shorter == SeqsUpTo(S, n - 1)
         IN  shorter \cup {Append(s, x) : s \in {t \in shorter : Len(t) = n - 1}, x \in S}

FileName == <<"M", ".", "t", "x", "t">>
Files == {[name |-> FileName, lines |-> ls, pos |-> 0] : ls \in SeqsUpTo(FileLines, MaxLines)}

NotLoaded == [name |-> "none", extractor |-> "none"]

CtorInit ==
    /\ cabinet = <<>>
    /\ run = <<>>
    /\ cache = <<>>
    /\ fs = <<>>
    /\ df \in Files
    /\ mod = ModFile(0, S_UNKNOWN, None)
    /\ op = NotLoaded
    /\ error_list = <<>>
    /\ readme = <<>>
    /\ rd = <<>>

\* FileCache.load on a file the cache does not hold, or holds with another mtime.
Load ==
    /\ op = NotLoaded
    /\ \E initial_status \in {S_NEW, S_UPDATED} :
           mod' = ModFile_load(1, df, initial_status, None)
    /\ op' = [name |-> "ModFile", extractor |-> Extractor(df)]
    /\ UNCHANGED <<cabinet, run, cache, fs, error_list, df, readme, rd>>

CtorNext == Load

SpecCtor == CtorInit /\ [][CtorNext]_vars

\* C2: a constructed ModFile has a title.
C2_TitlePresent == op.name = "ModFile" => mod.mod_title # None

\* C5: the extractor is chosen on the first line, or on the second line when the
\* first is blank: BLCMM when the line holds '<BLCMM', else FilterTool when it
\* starts with '#<', else free text; the record is that extractor's; a file
\* with two or more blank lines at its head goes to the free-text extractor.
C5_Blank(f, n) == n <= Len(f.lines) /\ Strip(f.lines[n], Whitespace) = <<>>
C5_Line(f, n) == IF n <= Len(f.lines) THEN f.lines[n] ELSE <<>>
C5_Decisive(f) == IF C5_Blank(f, 1) THEN C5_Line(f, 2) ELSE C5_Line(f, 1)
C5_Chosen(f) ==
    IF Contains(C5_Decisive(f), <<"<", "B", "L", "C", "M", "M">>) THEN "load_blcmm"
    ELSE IF StartsWith(C5_Decisive(f), <<"#", "<">>) THEN "load_ft"
    ELSE "load_unknown"
C5_Record(f) ==
    LET self == [ModFile(mod.mtime, mod.status, mod.game) EXCEPT
                    !.seen = TRUE,
                    !.full_filename = mod.full_filename,
                    !.rel_path = mod.rel_path,
                    !.rel_filename = mod.rel_filename,
                    !.mod_author = mod.mod_author]
        rest == [f EXCEPT !.pos = IF C5_Blank(f, 1) THEN 2 ELSE 1]
        r == CASE C5_Chosen(f) = "load_blcmm" -> load_blcmm(self, rest)
               [] C5_Chosen(f) = "load_ft" -> load_ft(self, rest)
               [] OTHER -> load_unknown(self, rest)
    IN  IF Len(r.mod_desc) > 0 THEN [r EXCEPT !.mod_desc = PopEmpty(@)] ELSE r
C5_Dispatch ==
    op.name = "ModFile" =>
        /\ op.extractor = C5_Chosen(df)
        /\ mod = C5_Record(df)
        /\ (C5_Blank(df, 1) /\ C5_Blank(df, 2) => op.extractor = "load_unknown")

C5_Witness ==
    /\ op.name = "ModFile"
    /\ Len(df.lines) = 3
    /\ df.lines[1] = Line_blank
    /\ df.lines[2] = Line_blank
    /\ df.lines[3] = Line_blcmm
    /\ op.extractor = "load_unknown"

(***************************************************************************)
(* Specification SpecComment: add_comment_line calls on one record         *)
(***************************************************************************)

MaxDesc == 3

Comment_empty == <<>>
Comment_blank == <<"#", " ", "\n">>
Comment_art == <<"#", "_", "_", "/", "\\", "_", "_", "\n">>
Comment_a == <<"/", "/", " ", "a", "\n">>
Comment_b == <<"b", "\n">>
Comment_title == <<"#", " ", "m", "\n">>
CommentLines ==
    {Comment_empty, Comment_blank, Comment_art, Comment_a, Comment_b, Comment_title}
MatchTitles == {None, <<"M">>}

CommentInit ==
    /\ cabinet = <<>>
    /\ run = <<>>
    /\ cache = <<>>
    /\ fs = <<>>
    /\ mod \in {ModFile(0, S_UNKNOWN, None),
                [ModFile(0, S_UNKNOWN, None) EXCEPT !.mod_title = <<"T">>]}
    /\ op = [name |-> "none", line |-> None, pre |-> <<>>]
    /\ error_list = <<>>
    /\ df = <<>>
    /\ readme = <<>>
    /\ rd = <<>>

\* One call of add_comment_line, as the extractors make it.
AddCommentLine ==
    /\ Len(mod.mod_desc) < MaxDesc
    /\ \E comment_line \in CommentLines, match_title \in MatchTitles :
          /\ mod' = add_comment_line(mod, comment_line, match_title)
          /\ op' = [name |-> "add_comment_line", line |-> comment_line,
                    pre |-> mod.mod_desc]
    /\ UNCHANGED <<cabinet, run, cache, fs, error_list, df, readme, rd>>

CommentNext == AddCommentLine

SpecComment == CommentInit /\ [][CommentNext]_vars

\* C7: the description never begins with an empty entry and never holds two
\* empty entries in a row; a call whose stripped line is empty leaves the
\* description as it was when that was empty or ended with an empty entry.
C7_WellFormed(mod_desc) ==
    /\ (Len(mod_desc) > 0 => mod_desc[1] # <<>>)
    /\ \A i \in 1..(Len(mod_desc) - 1) : ~(mod_desc[i] = <<>> /\ mod_desc[i + 1] = <<>>)
C7_EmptyCall ==
    /\ op.name = "add_comment_line"
    /\ Strip(op.line, CommentChars) = <<>>
    /\ (op.pre = <<>> \/ op.pre[Len(op.pre)] = <<>>)
C7_NoLeadingOrDoubleEmpty ==
    /\ C7_WellFormed(mod.mod_desc)
    /\ (C7_EmptyCall => mod.mod_desc = op.pre)

C7_Witness ==
    /\ C7_EmptyCall
    /\ Len(op.pre) = 2
    /\ op.pre[2] = <<>>
    /\ mod.mod_desc = op.pre

(***************************************************************************)
(* Readme: the section parser and the section matcher                      *)
(***************************************************************************)

\* A Python dict, kept in insertion order: a sequence of key/value entries.
DictKeys(d) == [i \in 1..Len(d) |-> d[i].k]
DictHas(d, key) == \E i \in 1..Len(d) : d[i].k = key
DictGet(d, key) == d[CHOOSE i \in 1..Len(d) : d[i].k = key].v
DictSet(d, key, value) ==
    IF DictHas(d, key)
    THEN [i \in 1..Len(d) |-> IF d[i].k = key THEN [k |-> key, v |-> value] ELSE d[i]]
    ELSE Append(d, [k |-> key, v |-> value])

Section_default == <<"(", "d", "e", "f", "a", "u", "l", "t", ")">>
Section_overview == <<"o", "v", "e", "r", "v", "i", "e", "w">>

\* Readme.__init__ without a file
Readme ==
    [mapping |-> <<[k |-> Section_default, v |-> <<>>]>>, first_section |-> None]

\* The branch for an underline when the section named by the previous line is
\* opened whether or not the current section holds a line to take back.
Underline_AlwaysRename(st, line) ==
    LET self == st.self
        data == DictGet(self.mapping, st.cur_section)
        popped == IF Len(data) > 0 THEN SubSeq(data, 1, Len(data) - 1) ELSE data
        renamed == Lower(Strip(st.prev_line, Whitespace))
    IN  IF Truthy(st.prev_line)
        THEN [st EXCEPT
                !.self = [mapping |->
                             DictSet(DictSet(self.mapping, st.cur_section, popped),
                                     renamed, <<>>),
                          first_section |->
                             IF self.first_section = st.cur_section /\ Len(popped) = 0
                             THEN None ELSE self.first_section],
                !.cur_section = renamed]
        ELSE [st EXCEPT
                !.self = [mapping |-> DictSet(self.mapping, st.cur_section, Append(data, line)),
                          first_section |-> IF ~Truthy(self.first_section)
                                            THEN st.cur_section ELSE self.first_section]]

\* The branch of read_file_obj for an underline of = or - signs.
Underline(st, line) ==
    LET self == st.self
        data == DictGet(self.mapping, st.cur_section)
        popped == SubSeq(data, 1, Len(data) - 1)
        renamed == Lower(Strip(st.prev_line, Whitespace))
    IN  IF Truthy(st.prev_line)
        THEN IF Len(data) > 0
             THEN [st EXCEPT
                     !.self = [mapping |->
                                  DictSet(DictSet(self.mapping, st.cur_section, popped),
                                          renamed, <<>>),
                               first_section |->
                                  IF self.first_section = st.cur_section /\ Len(popped) = 0
                                  THEN None ELSE self.first_section],
                     !.cur_section = renamed]
             ELSE st
        ELSE [st EXCEPT
                !.self = [mapping |-> DictSet(self.mapping, st.cur_section, Append(data, line)),
                          first_section |-> IF ~Truthy(self.first_section)
                                            THEN st.cur_section ELSE self.first_section]]

\* One turn of the loop of read_file_obj.
ReadLineOfReadme(st, raw) ==
    LET line == Strip(raw, Whitespace)
        self == st.self
        data == DictGet(self.mapping, st.cur_section)
        opened(name) == [st EXCEPT !.self.mapping = DictSet(@, name, <<>>),
                                   !.cur_section = name]
        next == IF StartsWith(line, <<"#">>)
                THEN opened(Lower(LStrip(line, {"#", " ", "\t"})))
                ELSE IF StartsWith(line, <<"=", "=", "=">>) THEN Underline(st, line)
                ELSE IF StartsWith(line, <<"-", "-", "-">>) THEN Underline(st, line)
                ELSE IF StartsWith(line, <<"-">>)
                THEN opened(Lower(LStrip(line, {"-", " ", "\t"})))
                ELSE IF Len(data) > 0 \/ line # <<>>
                THEN [st EXCEPT
                        !.self = [mapping |->
                                     DictSet(self.mapping, st.cur_section, Append(data, line)),
                                  first_section |->
                                     IF ~Truthy(self.first_section)
                                     THEN st.cur_section ELSE self.first_section]]
                ELSE st
    IN  [next EXCEPT !.prev_line = line]

RECURSIVE ReadLinesOfReadme(_, _)
ReadLinesOfReadme(st, lines) ==
    IF lines = <<>> THEN st
    ELSE ReadLinesOfReadme(ReadLineOfReadme(st, Head(lines)), Tail(lines))

\* read_file_obj without the loop that takes the empty lines off the end of
\* each section.
read_file_obj_NoTrim(self, lines) ==
    ReadLinesOfReadme([self |-> self, prev_line |-> None, cur_section |-> Section_default],
                      lines).self

\* Readme.read_file_obj
read_file_obj(self, lines) ==
    LET st == ReadLinesOfReadme(
                  [self |-> self, prev_line |-> None, cur_section |-> Section_default],
                  lines)
    IN  [st.self EXCEPT
            !.mapping = [i \in 1..Len(@) |-> [k |-> @[i].k, v |-> RStrip(@[i].v, {<<>>})]]]

\* The first section, in insertion order, close to the name; 0 when none is.
FirstSimilar(mapping, mod_name_lower) ==
    LET hits == {i \in 1..Len(mapping) : Similar(mod_name_lower, mapping[i].k)}
    IN  IF hits = {} THEN 0 ELSE CHOOSE i \in hits : \A j \in hits : i <= j

\* Readme.find_matching
find_matching(self, mod_name, single_mod) ==
    LET hit == FirstSimilar(self.mapping, Lower(mod_name))
    IN  IF single_mod
        THEN IF DictHas(self.mapping, Section_overview)
             THEN DictGet(self.mapping, Section_overview)
             ELSE IF hit # 0 THEN self.mapping[hit].v
             ELSE IF Truthy(self.first_section)
             THEN DictGet(self.mapping, self.first_section)
             ELSE DictGet(self.mapping, Section_default)
        ELSE IF hit # 0 THEN self.mapping[hit].v ELSE <<>>

(***************************************************************************)
(* Specification SpecReadme: parse a README, then look sections up         *)
(***************************************************************************)

MaxReadmeLines == 3

Readme_blank == <<"\n">>
Readme_hash == <<"#", "\n">>
Readme_overview == <<"#", " ", "O", "v", "e", "r", "v", "i", "e", "w", "\n">>
Readme_heading == <<"#", "#", " ", "M", "o", "d", "\n">>
Readme_item == <<"-", " ", "Z", "e", "d", "\n">>
Readme_text == <<"M", "o", "d", "\n">>
Readme_equals == <<"=", "=", "=", "\n">>
Readme_dashes == <<"-", "-", "-", "\n">>
ReadmeLines ==
    {Readme_blank, Readme_hash, Readme_overview, Readme_heading, Readme_item,
     Readme_text, Readme_equals, Readme_dashes}
ModNames == {<<"M", "o", "d">>, <<"Z", "e", "d">>, <<"Q">>}

ReadmeInit ==
    /\ cabinet = <<>>
    /\ run = <<>>
    /\ cache = <<>>
    /\ fs = <<>>
    /\ readme = Readme
    /\ rd \in {[lines |-> ls, read |-> FALSE] : ls \in SeqsUpTo(ReadmeLines, MaxReadmeLines)}
    /\ op = [name |-> "none"]
    /\ mod = <<>>
    /\ error_list = <<>>
    /\ df = <<>>

\* Readme.__init__ on a file: read_file_obj over its lines.
ReadFileObj ==
    /\ ~rd.read
    /\ readme' = read_file_obj(readme, rd.lines)
    /\ rd' = [rd EXCEPT !.read = TRUE]
    /\ op' = [name |-> "read_file_obj"]
    /\ UNCHANGED <<cabinet, run, cache, fs, mod, error_list, df>>

\* Readme.find_matching, as the run calls it on a README it has read.
FindMatching ==
    /\ rd.read
    /\ \E mod_name \in ModNames, single_mod \in BOOLEAN :
          op' = [name |-> "find_matching", mod_name |-> mod_name,
                 single_mod |-> single_mod,
                 result |-> find_matching(readme, mod_name, single_mod)]
    /\ UNCHANGED <<cabinet, run, cache, fs, readme, rd, mod, error_list, df>>

ReadmeNext == ReadFileObj \/ FindMatching

SpecReadme == ReadmeInit /\ [][ReadmeNext]_vars

\* C6: find_matching returns what the reference returns.  With single_mod: the
\* 'overview' section when there is one; else the first section, in insertion
\* order, whose name is more than 0.8 similar to the lower-cased title; else
\* the first_section's content when one was recorded; else '(default)'.
\* Without single_mod: the first similar section, else the empty sequence.
C6_Names(r) == [i \in 1..Len(r.mapping) |-> r.mapping[i].k]
C6_Content(r, name) == r.mapping[CHOOSE i \in 1..Len(r.mapping) : r.mapping[i].k = name].v
C6_SimilarTo(r, title) ==
    {i \in 1..Len(r.mapping) : Similar(Lower(title), C6_Names(r)[i])}
C6_FirstOf(S) == CHOOSE i \in S : \A j \in S : i <= j
C6_Reference(r, title, single_mod) ==
    IF single_mod
    THEN IF \E i \in 1..Len(r.mapping) : C6_Names(r)[i] = Section_overview
         THEN C6_Content(r, Section_overview)
         ELSE IF C6_SimilarTo(r, title) # {}
         THEN r.mapping[C6_FirstOf(C6_SimilarTo(r, title))].v
         ELSE IF r.first_section # None THEN C6_Content(r, r.first_section)
         ELSE C6_Content(r, Section_default)
    ELSE IF C6_SimilarTo(r, title) # {}
         THEN r.mapping[C6_FirstOf(C6_SimilarTo(r, title))].v
         ELSE <<>>
C6_MatchesReference ==
    op.name = "find_matching" =>
        op.result = C6_Reference(readme, op.mod_name, op.single_mod)

(***************************************************************************)
(* The tag/colon directive extractor (load_text_hotfixes).  Its code is    *)
(* not part of app.py as given; it is modelled from section 4.2 of the     *)
(* specification and from the tests written against it.  The free-text     *)
(* block heuristic of step 5 is left out: the description is not touched.  *)
(***************************************************************************)

\* The prefix of the first line of the machine-directive section.
Sentinel == <<"S", "p", "a", "r", "k">>

\* The categories the caller accepts.
valid_categories == {Cat_qol, Cat_scaling}

\* Step 2: drop the leading run of # and at most one space after it, then trim.
HeaderLine(raw) ==
    LET unhashed == LStrip(raw, {"#"})
        unspaced == IF unhashed # <<>> /\ Head(unhashed) = " " THEN Tail(unhashed)
                    ELSE unhashed
    IN  Strip(unspaced, Whitespace)

\* The keys of the two syntaxes, and the key each alias stands for.
SingletonKeys ==
    {<<"v", "e", "r", "s", "i", "o", "n">>, <<"l", "i", "c", "e", "n", "s", "e">>, <<"l", "i", "c", "e", "n", "s", "e", "-", "u", "r", "l">>, <<"n", "e", "x", "u", "s">>, <<"h", "o", "m", "e", "p", "a", "g", "e">>, <<"p", "a", "k", "f", "i", "l", "e">>}
ListKeys == {<<"s", "c", "r", "e", "e", "n", "s", "h", "o", "t">>, <<"v", "i", "d", "e", "o">>, <<"u", "r", "l">>}
KnownKeys ==
    {<<"t", "i", "t", "l", "e">>, <<"n", "a", "m", "e">>, <<"c", "a", "t", "e", "g", "o", "r", "i", "e", "s">>, <<"a", "u", "t", "h", "o", "r">>, <<"m", "a", "i", "n", "-", "a", "u", "t", "h", "o", "r">>, <<"l", "i", "c", "e", "n", "s", "e", " ", "u", "r", "l">>}
        \cup SingletonKeys \cup ListKeys
CanonicalKey(key) ==
    CASE key = <<"n", "a", "m", "e">> -> <<"t", "i", "t", "l", "e">>
      [] key = <<"l", "i", "c", "e", "n", "s", "e", " ", "u", "r", "l">> -> <<"l", "i", "c", "e", "n", "s", "e", "-", "u", "r", "l">>
      [] key = <<"m", "a", "i", "n", "-", "a", "u", "t", "h", "o", "r">> -> <<"a", "u", "t", "h", "o", "r">>
      [] OTHER -> key

\* Step 3: a line is blank, a directive or free text.
NoDirective == [kind |-> "text"]
Directive(line) ==
    LET space == Find(line, <<" ">>)
        colon == Find(line, <<":">>)
        colon_key == Lower(Strip(SubSeq(line, 1, colon - 1), Whitespace))
    IN  IF line = <<>> THEN [kind |-> "blank"]
        ELSE IF StartsWith(line, <<"@">>)
        THEN IF space = 0
             THEN [kind |-> "directive", key |-> Lower(SubSeq(line, 2, Len(line))),
                   value |-> <<>>]
             ELSE [kind |-> "directive", key |-> Lower(SubSeq(line, 2, space - 1)),
                   value |-> Strip(SubSeq(line, space + 1, Len(line)), Whitespace)]
        ELSE IF colon # 0 /\ colon_key \in KnownKeys
        THEN [kind |-> "directive", key |-> colon_key,
              value |-> Strip(SubSeq(line, colon + 1, Len(line)), Whitespace)]
        ELSE NoDirective

\* The entries of a categories value: split at the commas, trimmed, lower-cased.
CategoryEntries(value) ==
    LET pieces == Split(value, ",")
    IN  [i \in 1..Len(pieces) |-> Lower(Strip(pieces[i], Whitespace))]

\* AddCategories that gives the whole line up at its first invalid entry.
RECURSIVE AddCategories_FailFast(_, _)
AddCategories_FailFast(st, entries) ==
    IF entries = <<>> THEN st
    ELSE IF Head(entries) \in valid_categories
    THEN AddCategories_FailFast([st EXCEPT !.self.categories = @ \cup {Head(entries)}],
                                Tail(entries))
    ELSE [st EXCEPT !.error_list =
             Append(@, [msg |-> "Invalid category", what |-> Head(entries)])]

\* The record and the error list after the entries of one categories line.
RECURSIVE AddCategories(_, _)
AddCategories(st, entries) ==
    IF entries = <<>> THEN st
    ELSE IF Head(entries) \in valid_categories
    THEN AddCategories([st EXCEPT !.self.categories = @ \cup {Head(entries)}],
                       Tail(entries))
    ELSE AddCategories(
            [st EXCEPT !.error_list =
                Append(@, [msg |-> "Invalid category", what |-> Head(entries)])],
            Tail(entries))

\* The record's field a singleton key is stored in.
SingletonOf(self, key) ==
    CASE key = <<"t", "i", "t", "l", "e">> -> self.mod_title
      [] key = <<"v", "e", "r", "s", "i", "o", "n">> -> self.version
      [] key = <<"l", "i", "c", "e", "n", "s", "e">> -> self.license
      [] key = <<"l", "i", "c", "e", "n", "s", "e", "-", "u", "r", "l">> -> self.license_url
      [] key = <<"n", "e", "x", "u", "s">> -> self.nexus_link
      [] key = <<"h", "o", "m", "e", "p", "a", "g", "e">> -> self.homepage
      [] key = <<"p", "a", "k", "f", "i", "l", "e">> -> self.pakfile
SetSingleton(self, key, value) ==
    CASE key = <<"t", "i", "t", "l", "e">> -> [self EXCEPT !.mod_title = value]
      [] key = <<"v", "e", "r", "s", "i", "o", "n">> -> [self EXCEPT !.version = value]
      [] key = <<"l", "i", "c", "e", "n", "s", "e">> -> [self EXCEPT !.license = value]
      [] key = <<"l", "i", "c", "e", "n", "s", "e", "-", "u", "r", "l">> -> [self EXCEPT !.license_url = value]
      [] key = <<"n", "e", "x", "u", "s">> -> [self EXCEPT !.nexus_link = value]
      [] key = <<"h", "o", "m", "e", "p", "a", "g", "e">> -> [self EXCEPT !.homepage = value]
      [] key = <<"p", "a", "k", "f", "i", "l", "e">> -> [self EXCEPT !.pakfile = value]

\* Step 4: what one directive does to the record and the error list.
ApplyDirective(st, d) ==
    LET key == CanonicalKey(d.key)
        self == st.self
    IN  IF key = <<"t", "i", "t", "l", "e">> \/ key \in SingletonKeys
        THEN IF SingletonOf(self, key) = None
             THEN [st EXCEPT !.self = SetSingleton(self, key, d.value)]
             ELSE [st EXCEPT !.error_list = Append(@, [msg |-> "More than one", what |-> key])]
        ELSE IF key = <<"c", "a", "t", "e", "g", "o", "r", "i", "e", "s">> THEN AddCategories(st, CategoryEntries(d.value))
        ELSE IF key = <<"a", "u", "t", "h", "o", "r">>
        THEN IF \/ Lower(d.value) = Lower(self.mod_author)
                \/ \E i \in 1..Len(self.other_authors) :
                       Lower(self.other_authors[i]) = Lower(d.value)
             THEN st
             ELSE [st EXCEPT !.self.other_authors = Append(@, d.value)]
        ELSE IF key = <<"s", "c", "r", "e", "e", "n", "s", "h", "o", "t">> THEN [st EXCEPT !.self.screenshots = Append(@, d.value)]
        ELSE IF key = <<"v", "i", "d", "e", "o">> THEN [st EXCEPT !.self.youtube_urls = Append(@, d.value)]
        ELSE IF key = <<"u", "r", "l">> THEN [st EXCEPT !.self.urls = Append(@, d.value)]
        ELSE IF d.value = <<>>
        THEN [st EXCEPT !.error_list = Append(@, [msg |-> "Bare tag", what |-> d.key])]
        ELSE [st EXCEPT !.error_list = Append(@, [msg |-> "Unknown key", what |-> d.key])]

\* Steps 1 to 4: the lines are scanned up to the sentinel.
RECURSIVE ScanHeader(_, _)
ScanHeader(st, lines) ==
    IF lines = <<>> THEN st
    ELSE LET line == HeaderLine(Head(lines))
             d == Directive(line)
         IN  IF StartsWith(line, Sentinel) THEN st
             ELSE IF d.kind = "directive" THEN ScanHeader(ApplyDirective(st, d), Tail(lines))
             ELSE ScanHeader(st, Tail(lines))

\* Termination with the category check made before the title check.
Termination_CategoriesFirst(self) ==
    IF self.categories = {} THEN "No categories found"
    ELSE IF self.mod_title = None THEN "No mod title found"
    ELSE IF self.is_pak_only /\ self.pakfile = None THEN "No pakfile found"
    ELSE "none"

\* Step 6: the message of the NotAModFile failure, "none" on a normal return.
Termination(self) ==
    IF self.mod_title = None THEN "No mod title found"
    ELSE IF self.categories = {} THEN "No categories found"
    ELSE IF self.is_pak_only /\ self.pakfile = None THEN "No pakfile found"
    ELSE "none"

\* ModFile.load_text_hotfixes: the record, the error list and the failure.
load_text_hotfixes(self, errors, lines) ==
    LET st == ScanHeader([self |-> self, error_list |-> errors], lines)
    IN  [self |-> st.self, error_list |-> st.error_list, raised |-> Termination(st.self)]

\* The ModFile record of the version that has load_text_hotfixes.
TagModFile(is_pak_only) ==
    [version |-> None, license |-> None, license_url |-> None, homepage |-> None,
     pakfile |-> None, other_authors |-> <<>>, is_pak_only |-> is_pak_only]
        @@ [ModFile(0, S_UNKNOWN, None) EXCEPT !.nexus_link = None,
                                               !.mod_author = Dir_author]

(***************************************************************************)
(* Specification SpecTag: load_text_hotfixes on a header                   *)
(***************************************************************************)

MaxHeader == 3

Tag_title == <<"@", "t", "i", "t", "l", "e", " ", "T", "\n">>
Tag_name == <<"#", " ", "N", "a", "m", "e", ":", " ", "U", ":", " ", "V", "\n">>
Tag_categories == <<"@", "c", "a", "t", "e", "g", "o", "r", "i", "e", "s", " ", "q", "o", "l", ",", " ", "b", "z", "o", "r", "t", "\n">>
Tag_Categories == <<"#", " ", "C", "a", "t", "e", "g", "o", "r", "i", "e", "s", ":", " ", "S", "c", "a", "l", "i", "n", "g", " ", ",", "Q", "O", "L", "\n">>
Tag_invalid == <<"@", "c", "a", "t", "e", "g", "o", "r", "i", "e", "s", " ", "b", "z", "o", "r", "t", ",", "z", "z", "\n">>
Tag_pakfile == <<"@", "p", "a", "k", "f", "i", "l", "e", " ", "p", "\n">>
Tag_text == <<"#", " ", "t", "e", "x", "t", "\n">>
Tag_sentinel == <<"S", "p", "a", "r", "k", "P", "a", "t", "c", "h", "E", "n", "t", "r", "y", "\n">>
TagLines ==
    {Tag_title, Tag_name, Tag_categories, Tag_Categories, Tag_invalid, Tag_pakfile,
     Tag_text, Tag_sentinel}

TagInit ==
    /\ cabinet = <<>>
    /\ run = <<>>
    /\ cache = <<>>
    /\ fs = <<>>
    /\ df \in {[name |-> FileName, lines |-> ls, pos |-> 0] : ls \in SeqsUpTo(TagLines, MaxHeader)}
    /\ mod \in {TagModFile(p) : p \in BOOLEAN}
    /\ op = [name |-> "none", raised |-> "none"]
    /\ error_list = <<>>
    /\ readme = <<>>
    /\ rd = <<>>

LoadTextHotfixes ==
    /\ op.name = "none"
    /\ LET r == load_text_hotfixes(mod, error_list, df.lines)
       IN  /\ mod' = r.self
           /\ error_list' = r.error_list
           /\ op' = [name |-> "load_text_hotfixes", raised |-> r.raised]
    /\ UNCHANGED <<cabinet, run, cache, fs, df, readme, rd>>

TagNext == LoadTextHotfixes

SpecTag == TagInit /\ [][TagNext]_vars

\* The header lines that are scanned: those before the sentinel line.
RECURSIVE Scanned(_)
Scanned(lines) ==
    IF lines = <<>> \/ StartsWith(HeaderLine(Head(lines)), Sentinel) THEN <<>>
    ELSE <<Directive(HeaderLine(Head(lines)))>> \o Scanned(Tail(lines))

\* C1: load_text_hotfixes fails exactly when no title directive was found ('No
\* mod title found'), else when no category survived validation ('No
\* categories found'), else, for a pak-only record, when no pakfile directive
\* was found ('No pakfile found'); otherwise it returns normally.
C1_Has(lines, keys) ==
    \E i \in 1..Len(Scanned(lines)) :
        Scanned(lines)[i].kind = "directive" /\ Scanned(lines)[i].key \in keys
C1_Survivors(lines) ==
    {c \in valid_categories :
        \E i \in 1..Len(Scanned(lines)) :
            /\ Scanned(lines)[i].kind = "directive"
            /\ Scanned(lines)[i].key = <<"c", "a", "t", "e", "g", "o", "r", "i", "e", "s">>
            /\ \E j \in 1..Len(CategoryEntries(Scanned(lines)[i].value)) :
                   CategoryEntries(Scanned(lines)[i].value)[j] = c}
C1_Expected ==
    IF ~C1_Has(df.lines, {<<"t", "i", "t", "l", "e">>, <<"n", "a", "m", "e">>}) THEN "No mod title found"
    ELSE IF C1_Survivors(df.lines) = {} THEN "No categories found"
    ELSE IF mod.is_pak_only /\ ~C1_Has(df.lines, {<<"p", "a", "k", "f", "i", "l", "e">>}) THEN "No pakfile found"
    ELSE "none"
C1_FailureOrder ==
    op.name = "load_text_hotfixes" => op.raised = C1_Expected

C1_Witness ==
    /\ op.name = "load_text_hotfixes"
    /\ mod.is_pak_only
    /\ mod.mod_title # None
    /\ mod.categories # {}
    /\ mod.pakfile = None
    /\ op.raised = "No pakfile found"

\* C4: the categories are exactly the valid entries of all categories lines
\* (split at commas, trimmed, lower-cased); every invalid entry adds one
\* 'Invalid category' warning and is dropped; the extraction fails with 'No
\* categories found' only when no entry at all is valid.
RECURSIVE C4_Entries(_)
C4_Entries(scanned) ==
    IF scanned = <<>> THEN <<>>
    ELSE (IF Head(scanned).kind = "directive" /\ Head(scanned).key = <<"c", "a", "t", "e", "g", "o", "r", "i", "e", "s">>
          THEN CategoryEntries(Head(scanned).value) ELSE <<>>)
         \o C4_Entries(Tail(scanned))
C4_Warnings == SelectSeq(error_list, LAMBDA w : w.msg = "Invalid category")
C4_Invalid == SelectSeq(C4_Entries(Scanned(df.lines)), LAMBDA c : c \notin valid_categories)
MaxMtime == 2

\* FileCache.load with a reparse only when the file is newer than the record.
FileCache_load_NewerOnly(mapping, files, filename) ==
    LET mtime == files[filename].mtime
        f == [name |-> filename, lines |-> files[filename].lines, pos |-> 0]
    IN  IF filename \notin DOMAIN mapping
        THEN (filename :> ModFile_load(mtime, f, S_NEW, None)) @@ mapping
        ELSE IF mtime > mapping[filename].mtime
        THEN (filename :> ModFile_load(mtime, f, S_UPDATED, None)) @@ mapping
        ELSE mapping

\* FileCache.load for the mod cache: the mapping after the call.  The record
\* returned is the one the mapping then holds for the file.
FileCache_load(mapping, files, filename) ==
    LET mtime == files[filename].mtime
        f == [name |-> filename, lines |-> files[filename].lines, pos |-> 0]
        initial_status == IF filename \notin DOMAIN mapping THEN S_NEW ELSE S_UPDATED
    IN  IF filename \notin DOMAIN mapping \/ mtime # mapping[filename].mtime
        THEN (filename :> ModFile_load(mtime, f, initial_status, None)) @@ mapping
        ELSE mapping

\* FileCache.save followed by FileCache.__init__ of the next run.
FileCache_reload(mapping) ==
    [k \in DOMAIN mapping |-> Cacheable_unserialize(Cacheable_serialize(mapping[k]))]

CachedNames == {FileName, <<"N", ".", "t", "x", "t">>}
CachedContents ==
    {<<Line_blcmm, Line_category, Line_comment>>, <<Line_ft, Line_text>>, <<Line_text>>}

FileCacheInit ==
    /\ cabinet = <<>>
    /\ run = <<>>
    /\ cache = <<>>
    /\ fs \in [CachedNames -> [mtime : {1}, lines : CachedContents]]
    /\ op = [name |-> "none"]
    /\ mod = <<>>
    /\ error_list = <<>>
    /\ df = <<>>
    /\ readme = <<>>
    /\ rd = <<>>

\* self.mod_cache.load(dirinfo, filename)
CacheLoad ==
    \E filename \in CachedNames :
        /\ cache' = FileCache_load(cache, fs, filename)
        /\ op' = [name |-> "load", filename |-> filename, returned |-> cache'[filename]]
        /\ UNCHANGED <<cabinet, run, fs, mod, error_list, df, readme, rd>>

\* Somebody writes a file of the repository: new lines, any mtime.
WriteFile ==
    \E filename \in CachedNames, mtime \in 1..MaxMtime, lines \in CachedContents :
        /\ fs[filename] # [mtime |-> mtime, lines |-> lines]
        /\ fs' = [fs EXCEPT ![filename] = [mtime |-> mtime, lines |-> lines]]
        /\ op' = [name |-> "write", filename |-> filename]
        /\ UNCHANGED <<cabinet, run, cache, mod, error_list, df, readme, rd>>

\* The run ends (the cache is saved) and the next one starts (it is loaded).
CacheReload ==
    /\ cache # <<>>
    /\ cache' = FileCache_reload(cache)
    /\ op' = [name |-> "reload"]
    /\ UNCHANGED <<cabinet, run, fs, mod, error_list, df, readme, rd>>

FileCacheNext == CacheLoad \/ WriteFile \/ CacheReload

SpecFileCache == FileCacheInit /\ [][FileCacheNext]_vars

\* C11: load parses and stores an unknown file with S_NEW; parses again and
\* replaces the record with one of status S_UPDATED when the mtimes differ; and
\* returns the cached record itself, unread and unchanged, when they agree.
C11_Parsed(n, status) ==
    ModFile_load(fs[n].mtime, [name |-> n, lines |-> fs[n].lines, pos |-> 0], status, None)
C11_LoadContract ==
    [][op'.name = "load" =>
        LET n == op'.filename
        IN  /\ fs' = fs
            /\ DOMAIN cache' = DOMAIN cache \cup {n}
            /\ \A k \in DOMAIN cache \ {n} : cache'[k] = cache[k]
            /\ op'.returned = cache'[n]
            /\ (n \notin DOMAIN cache => cache'[n] = C11_Parsed(n, S_NEW))
            /\ (n \in DOMAIN cache =>
                   IF cache[n].mtime # fs[n].mtime
                   THEN cache'[n] = C11_Parsed(n, S_UPDATED)
                   ELSE cache'[n] = cache[n])]_vars

C11_Witness ==
    /\ op.name = "load"
    /\ op.returned.status = S_CACHED
    /\ op.returned.mtime = fs[op.filename].mtime
    /\ op.returned.mod_title # C11_Parsed(op.filename, S_CACHED).mod_title

(***************************************************************************)
(* Specification SpecRun: App.run walks the repository, one mod file in    *)
(* each directory, then resolves names, writes the pages and saves         *)
(***************************************************************************)

RunNames == {FileName, <<"N", ".", "t", "x", "t">>, <<"O", ".", "t", "x", "t">>}
RunContents ==
    {<<Line_blcmm>>, <<Line_blcmm, Line_category, Line_comment>>, <<Line_ft, Line_text>>,
     <<Line_text>>}
WalkOrder == <<FileName, <<"N", ".", "t", "x", "t">>, <<"O", ".", "t", "x", "t">>>>

RunInit ==
    /\ run = [pc |-> "walk", todo |-> WalkOrder, processed |-> {}, pages |-> {},
              saved |-> FALSE, retval |-> 0]
    /\ fs \in [RunNames -> [mtime : {1}, lines : RunContents]]
    /\ cache \in {<<>>, FileCache_reload(FileCache_load(<<>>,
                            [n \in RunNames |-> [mtime |-> 0, lines |-> <<Line_text>>]],
                            FileName))}
    /\ op = [name |-> "none"]
    /\ mod = <<>>
    /\ error_list = <<>>
    /\ df = <<>>
    /\ readme = <<>>
    /\ rd = <<>>
    /\ cabinet = <<>>

\* What the walk does with the mod file of one directory that has a
\* cabinet.info of one mod (category qol, no URL) and no README.
ProcessedFile(mapping, files, filename) ==
    LET loaded == FileCache_load(mapping, files, filename)
        a == update_readme_desc(loaded[filename], None, <<>>)
        b == update_changelog(a, <<>>)
        c == set_categories(b, <<Cat_qol>>)
        d == set_urls(c, <<>>)
    IN  (filename :> d) @@ loaded

\* One turn of the walk.  Taking mod_title.lower() of a record without a title
\* raises; nothing in _run catches that, App.run does and ends the run.
WalkStep ==
    /\ run.pc = "walk"
    /\ run.todo # <<>>
    /\ LET filename == Head(run.todo)
       IN  /\ cache' = ProcessedFile(cache, fs, filename)
           /\ op' = [name |-> "walk", filename |-> filename]
           /\ IF cache'[filename].mod_title = None
              THEN run' = [run EXCEPT !.pc = "aborted", !.retval = 1]
              ELSE run' = [run EXCEPT !.todo = Tail(@),
                                      !.processed = @ \cup {filename}]
    /\ UNCHANGED <<fs, mod, error_list, df, readme, rd, cabinet>>

\* After the walk: the records not seen are dropped, the pages of the records
\* that are left are written and the caches are saved.
FinishRun ==
    /\ run.pc = "walk"
    /\ run.todo = <<>>
    /\ cache' = [k \in {n \in DOMAIN cache : cache[n].seen} |-> cache[k]]
    /\ run' = [run EXCEPT !.pc = "done", !.pages = DOMAIN cache', !.saved = TRUE]
    /\ op' = [name |-> "finish"]
    /\ UNCHANGED <<fs, mod, error_list, df, readme, rd, cabinet>>

RunNext == WalkStep \/ FinishRun

SpecRun == RunInit /\ [][RunNext]_vars

\* C12: a file that is fatal to itself does not abort the run: the walk goes
\* on with the other files and the run ends with its pages written and its
\* caches saved.
C12_RunNotAborted == run.pc # "aborted"

(***************************************************************************)
(* DirInfo                                                                 *)
(***************************************************************************)

\* DirInfo.__init__: rel_dirpath and dir_author for a directory of the repository
rel_dirpath(repo_dir, dirpath) == SubSeq(dirpath, Len(repo_dir) + 2, Len(dirpath))
dir_author(repo_dir, dirpath) ==
    LET path_components == Split(rel_dirpath(repo_dir, dirpath), "/")
    IN  IF Len(path_components) > 1 THEN path_components[2] ELSE <<"(", "u", "n", "k", "n", "o", "w", "n", ")">>

(***************************************************************************)
(* Specification SpecDirInfo: a DirInfo for each directory of a walk       *)
(***************************************************************************)

MaxDepth == 3

Repo_dir == <<"/", "r">>
DirNames == {<<"G">>, <<"A">>, <<"M">>, <<"x">>}

DirInfoInit ==
    /\ df = [names |-> <<>>, dirpath |-> Repo_dir]
    /\ op = [name |-> "none"]
    /\ mod = <<>>
    /\ error_list = <<>>
    /\ readme = <<>>
    /\ rd = <<>>
    /\ cache = <<>>
    /\ fs = <<>>
    /\ run = <<>>
    /\ cabinet = <<>>

\* DirInfo(repo_dir, dirpath, filenames), and the walk going one level down
NewDirInfo ==
    /\ op' = [name |-> "DirInfo", dir_author |-> dir_author(Repo_dir, df.dirpath)]
    /\ UNCHANGED <<df, mod, error_list, readme, rd, cache, fs, run, cabinet>>
Descend ==
    /\ Len(df.names) < MaxDepth
    /\ \E n \in DirNames :
           df' = [names |-> Append(df.names, n), dirpath |-> df.dirpath \o <<"/">> \o n]
    /\ op' = [name |-> "none"]
    /\ UNCHANGED <<mod, error_list, readme, rd, cache, fs, run, cabinet>>

DirInfoNext == NewDirInfo \/ Descend

SpecDirInfo == DirInfoInit /\ [][DirInfoNext]_vars

\* C15: dir_author is the first component of the directory's path below the
\* repository root, and '(unknown)' for the root itself.
C15_FirstComponent ==
    op.name = "DirInfo" =>
        op.dir_author = IF df.names = <<>> THEN <<"(", "u", "n", "k", "n", "o", "w", "n", ")">> ELSE df.names[1]

(***************************************************************************)
(* CabinetInfo: the cabinet.info parser                                    *)
(***************************************************************************)

\* CabinetInfo.__init__ without a file.  mods is a dict in insertion order; its
\* values are the CabinetModInfo records.
CabinetInfo(mtime, initial_status) ==
    [mtime |-> mtime, status |-> initial_status, rel_filename |-> None,
     mods |-> <<>>, single_mod |-> FALSE, errors |-> FALSE]

\* CabinetModInfo.__init__
CabinetModInfo(filename, categories) ==
    [filename |-> filename, categories |-> categories, urls |-> <<>>]

\* [c.strip() for c in mod_categories.lower().split(',')]
RegisterCats(mod_categories) ==
    LET pieces == Split(Lower(mod_categories), ",")
    IN  [i \in 1..Len(pieces) |-> Strip(pieces[i], Whitespace)]

\* The loop of register, stopping at the first entry that is not valid.
RECURSIVE RegisterLoop_StopAtInvalid(_, _)
RegisterLoop_StopAtInvalid(st, cats) ==
    IF cats = <<>> THEN st
    ELSE IF Head(cats) \in valid_categories
    THEN RegisterLoop_StopAtInvalid([st EXCEPT !.real_cats = Append(@, Head(cats))], Tail(cats))
    ELSE [st EXCEPT !.self.errors = TRUE,
                    !.error_list = Append(@, [msg |-> "Invalid category",
                                              what |-> Head(cats)])]

\* The loop of register over the entries: the valid ones, and the warnings.
RECURSIVE RegisterLoop(_, _)
RegisterLoop(st, cats) ==
    IF cats = <<>> THEN st
    ELSE IF Head(cats) \in valid_categories
    THEN RegisterLoop([st EXCEPT !.real_cats = Append(@, Head(cats))], Tail(cats))
    ELSE RegisterLoop(
            [st EXCEPT !.self.errors = TRUE,
                       !.error_list = Append(@, [msg |-> "Invalid category",
                                                 what |-> Head(cats)])],
            Tail(cats))

\* CabinetInfo.register: the record, the error list and the value returned
register(self, errors, mod_name, mod_categories) ==
    IF DictHas(self.mods, mod_name)
    THEN [self |-> [self EXCEPT !.errors = TRUE],
          error_list |-> Append(errors, [msg |-> "specified twice", what |-> mod_name]),
          returned |-> FALSE]
    ELSE LET st == RegisterLoop([self |-> self, error_list |-> errors, real_cats |-> <<>>],
                                RegisterCats(mod_categories))
             report == IF Truthy(mod_name) THEN mod_name ELSE <<"t", "h", "e", " ", "m", "o", "d">>
         IN  IF Len(st.real_cats) > 0
             THEN [self |-> [st.self EXCEPT !.mods =
                                DictSet(@, mod_name, CabinetModInfo(mod_name, st.real_cats))],
                   error_list |-> st.error_list,
                   returned |-> TRUE]
             ELSE [self |-> [st.self EXCEPT !.errors = TRUE],
                   error_list |-> Append(st.error_list,
                                         [msg |-> "No categories found", what |-> report]),
                   returned |-> FALSE]

\* A line of cabinet.info that gives a URL
IsUrlLine(line) ==
    StartsWith(line, <<"h", "t", "t", "p", ":", "/", "/">>) \/ StartsWith(line, <<"h", "t", "t", "p", "s", ":", "/", "/">>) \/ Contains(line, <<"|", "h", "t", "t", "p">>)

\* One turn of the loop of load_from_file, without the single_mod test on a
\* line that names its mod.
LoadLine_NoSingleTest(st, line) ==
    LET self == st.self
        failed(msg) == [st EXCEPT !.self.errors = TRUE,
                                  !.error_list = Append(@, [msg |-> msg,
                                                            what |-> Strip(line, Whitespace)])]
        unescaped == IF Head(line) = "\\" THEN Tail(line) ELSE line
        sep == Find(unescaped, <<":", " ">>)
        mod_filename == SubSeq(unescaped, 1, sep - 1)
        named == register(self, st.error_list, mod_filename,
                          SubSeq(unescaped, sep + 2, Len(unescaped)))
        unnamed == register([self EXCEPT !.single_mod = TRUE], st.error_list, None,
                            Strip(line, Whitespace))
    IN  IF Strip(line, Whitespace) = <<>> \/ StartsWith(line, <<"#">>) THEN st
        ELSE IF IsUrlLine(line)
        THEN IF DictHas(self.mods, st.prev_modfile)
             THEN [st EXCEPT !.self.mods =
                      DictSet(@, st.prev_modfile,
                              [DictGet(@, st.prev_modfile) EXCEPT
                                  !.urls = Append(@, Strip(line, Whitespace))])]
             ELSE failed("Did not find previous modfile")
        ELSE IF Contains(line, <<":", " ">>)
        THEN [self |-> named.self, error_list |-> named.error_list,
              prev_modfile |-> IF named.returned THEN mod_filename ELSE st.prev_modfile]
        ELSE IF Len(self.mods) > 0 THEN failed("Unknown line")
        ELSE [self |-> unnamed.self, error_list |-> unnamed.error_list,
              prev_modfile |-> IF unnamed.returned THEN None ELSE st.prev_modfile]

\* One turn of the loop of load_from_file.
LoadLine(st, line) ==
    LET self == st.self
        failed(msg) == [st EXCEPT !.self.errors = TRUE,
                                  !.error_list = Append(@, [msg |-> msg,
                                                            what |-> Strip(line, Whitespace)])]
        unescaped == IF Head(line) = "\\" THEN Tail(line) ELSE line
        sep == Find(unescaped, <<":", " ">>)
        mod_filename == SubSeq(unescaped, 1, sep - 1)
        named == register(self, st.error_list, mod_filename,
                          SubSeq(unescaped, sep + 2, Len(unescaped)))
        unnamed == register([self EXCEPT !.single_mod = TRUE], st.error_list, None,
                            Strip(line, Whitespace))
    IN  IF Strip(line, Whitespace) = <<>> \/ StartsWith(line, <<"#">>) THEN st
        ELSE IF IsUrlLine(line)
        THEN IF DictHas(self.mods, st.prev_modfile)
             THEN [st EXCEPT !.self.mods =
                      DictSet(@, st.prev_modfile,
                              [DictGet(@, st.prev_modfile) EXCEPT
                                  !.urls = Append(@, Strip(line, Whitespace))])]
             ELSE failed("Did not find previous modfile")
        ELSE IF Contains(line, <<":", " ">>)
        THEN IF self.single_mod THEN failed("Unknown line")
             ELSE [self |-> named.self, error_list |-> named.error_list,
                   prev_modfile |-> IF named.returned THEN mod_filename
                                    ELSE st.prev_modfile]
        ELSE IF Len(self.mods) > 0 THEN failed("Unknown line")
        ELSE [self |-> unnamed.self, error_list |-> unnamed.error_list,
              prev_modfile |-> IF unnamed.returned THEN None ELSE st.prev_modfile]

(***************************************************************************)
(* Specification SpecCabinet: load_from_file reads a cabinet.info, one     *)
(* line at each step                                                       *)
(***************************************************************************)

MaxCabinetLines == 3

Cabinet_bare == <<"q", "o", "l", "\n">>
Cabinet_invalid == <<"b", "z", "o", "r", "t", "\n">>
Cabinet_named == <<"a", ".", "t", "x", "t", ":", " ", "q", "o", "l", "\n">>
Cabinet_mixed == <<"b", ".", "t", "x", "t", ":", " ", "S", "c", "a", "l", "i", "n", "g", " ", ",", " ", "b", "z", "o", "r", "t", "\n">>
Cabinet_again == <<"a", ".", "t", "x", "t", ":", " ", "s", "c", "a", "l", "i", "n", "g", "\n">>
Cabinet_noname == <<":", " ", "q", "o", "l", "\n">>
Cabinet_url == <<"h", "t", "t", "p", ":", "/", "/", "x", "\n">>
Cabinet_comment == <<"#", " ", "c", "\n">>
Cabinet_failed == <<"c", ".", "t", "x", "t", ":", " ", "b", "z", "o", "r", "t", "\n">>
CabinetLines ==
    {Cabinet_bare, Cabinet_invalid, Cabinet_named, Cabinet_mixed, Cabinet_again,
     Cabinet_noname, Cabinet_url, Cabinet_comment, Cabinet_failed}

CabinetInit ==
    /\ cabinet = [self |-> [CabinetInfo(1, S_NEW) EXCEPT !.rel_filename = <<"A", "/", "c", "a", "b", "i", "n", "e", "t", ".", "i", "n", "f", "o">>],
                  prev_modfile |-> None]
    /\ df \in {[name |-> <<"c", "a", "b", "i", "n", "e", "t", ".", "i", "n", "f", "o">>, lines |-> ls, pos |-> 0] :
                  ls \in SeqsUpTo(CabinetLines, MaxCabinetLines)}
    /\ error_list = <<>>
    /\ op = [name |-> "none"]
    /\ mod = <<>>
    /\ readme = <<>>
    /\ rd = <<>>
    /\ cache = <<>>
    /\ fs = <<>>
    /\ run = <<>>

\* load_from_file comes to its next line.
ReadCabinetLine ==
    /\ df.pos < Len(df.lines)
    /\ LET line == ReadLine(df)
           st == LoadLine([self |-> cabinet.self, error_list |-> error_list,
                           prev_modfile |-> cabinet.prev_modfile], line)
       IN  /\ cabinet' = [self |-> st.self, prev_modfile |-> st.prev_modfile]
           /\ error_list' = st.error_list
           /\ op' = [name |-> "load_from_file", line |-> line]
    /\ df' = AfterReadLine(df)
    /\ UNCHANGED <<mod, readme, rd, cache, fs, run>>

CabinetNext == ReadCabinetLine

SpecCabinet == CabinetInit /\ [][CabinetNext]_vars

\* C13: a loaded cabinet.info is single-mod or multi-mod, never both: mods
\* never holds the unnamed entry together with a named one; single_mod is
\* TRUE with the unnamed entry and FALSE with a named one; once a definition
\* of one form is registered, a later definition line of the other form, and
\* any later bare category line, gets an 'Unknown line' error and leaves
\* mods as it is.
C13_HasUnnamed(c) == \E i \in 1..Len(c.mods) : c.mods[i].k = None
C13_HasNamed(c) == \E i \in 1..Len(c.mods) : c.mods[i].k # None
C13_Form(line) ==
    IF Strip(line, Whitespace) = <<>> \/ StartsWith(line, <<"#">>) THEN "skipped"
    ELSE IF IsUrlLine(line) THEN "url"
    ELSE IF Contains(line, <<":", " ">>) THEN "named"
    ELSE "bare"
C13_OneForm(c) ==
    /\ ~(C13_HasUnnamed(c) /\ C13_HasNamed(c))
    /\ (C13_HasUnnamed(c) => c.single_mod)
    /\ (C13_HasNamed(c) => ~c.single_mod)
C13_Rejected ==
    /\ cabinet'.self.mods = cabinet.self.mods
    /\ Len(error_list') = Len(error_list) + 1
    /\ SubSeq(error_list', 1, Len(error_list)) = error_list
    /\ error_list'[Len(error_list')].msg = "Unknown line"
C13_SingleOrMulti ==
    /\ [](op.name = "load_from_file" => C13_OneForm(cabinet.self))
    /\ [][(/\ op'.name = "load_from_file"
           /\ \/ C13_Form(op'.line) = "bare" /\ Len(cabinet.self.mods) > 0
              \/ C13_Form(op'.line) = "named" /\ C13_HasUnnamed(cabinet.self))
          => C13_Rejected]_vars

C13_Witness ==
    /\ op.name = "load_from_file"
    /\ C13_Form(op.line) = "named"
    /\ C13_HasUnnamed(cabinet.self)
    /\ Len(error_list) = 1
    /\ error_list[1].msg = "Unknown line"

(***************************************************************************)
(* Specification SpecRegister: CabinetInfo.register called on one record   *)
(***************************************************************************)

MaxRegister == 3

RegisterNames == {None, <<>>, <<"a", ".", "t", "x", "t">>, <<"b", ".", "t", "x", "t">>}
RegisterCategories == {<<"q", "o", "l">>, <<"S", "c", "a", "l", "i", "n", "g", " ", ",", " ", "b", "z", "o", "r", "t", ",", "Q", "O", "L">>, <<"b", "z", "o", "r", "t", ",", "z", "z">>}

RegisterInit ==
    /\ cabinet = [self |-> [CabinetInfo(0, S_UNKNOWN) EXCEPT !.rel_filename = <<"c", "a", "b", "i", "n", "e", "t", ".", "i", "n", "f", "o">>],
                  prev_modfile |-> None]
    /\ error_list = <<>>
    /\ op = [name |-> "none", calls |-> 0]
    /\ df = <<>>
    /\ mod = <<>>
    /\ readme = <<>>
    /\ rd = <<>>
    /\ cache = <<>>
    /\ fs = <<>>
    /\ run = <<>>

Register ==
    /\ op.calls < MaxRegister
    /\ \E mod_name \in RegisterNames, mod_categories \in RegisterCategories :
          LET r == register(cabinet.self, error_list, mod_name, mod_categories)
          IN  /\ cabinet' = [cabinet EXCEPT !.self = r.self]
              /\ error_list' = r.error_list
              /\ op' = [name |-> "register", calls |-> op.calls + 1, mod_name |-> mod_name,
                        mod_categories |-> mod_categories, returned |-> r.returned]
    /\ UNCHANGED <<df, mod, readme, rd, cache, fs, run>>

RegisterNext == Register

SpecRegister == RegisterInit /\ [][RegisterNext]_vars

\* What C14 says of one call: the entries, the valid ones in order, the
\* warnings, and the outcome; reported is the name the last error gives.
C14_Entries(mod_categories) ==
    LET pieces == Split(mod_categories, ",")
    IN  [i \in 1..Len(pieces) |-> Lower(Strip(pieces[i], Whitespace))]
C14_Valid(mod_categories) ==
    SelectSeq(C14_Entries(mod_categories), LAMBDA c : c \in valid_categories)
C14_Warnings(mod_categories) ==
    LET invalid == SelectSeq(C14_Entries(mod_categories), LAMBDA c : c \notin valid_categories)
    IN  [i \in 1..Len(invalid) |-> [msg |-> "Invalid category", what |-> invalid[i]]]
C14_Known(mods, mod_name) == \E i \in 1..Len(mods) : mods[i].k = mod_name
C14_Call(reported) ==
    LET mods == cabinet.self.mods
        mod_name == op'.mod_name
        cats == op'.mod_categories
    IN  IF C14_Known(mods, mod_name)
        THEN /\ op'.returned = FALSE
             /\ cabinet'.self.mods = mods
             /\ error_list' =
                   Append(error_list, [msg |-> "specified twice", what |-> mod_name])
        ELSE IF C14_Valid(cats) # <<>>
        THEN /\ op'.returned = TRUE
             /\ cabinet'.self.mods =
                   Append(mods, [k |-> mod_name,
                                 v |-> [filename |-> mod_name,
                                        categories |-> C14_Valid(cats),
                                        urls |-> <<>>]])
             /\ error_list' = error_list \o C14_Warnings(cats)
        ELSE /\ op'.returned = FALSE
             /\ cabinet'.self.mods = mods
             /\ error_list' = error_list \o C14_Warnings(cats)
                   \o <<[msg |-> "No categories found", what |-> reported]>>

\* C14 as stated: the 'No categories found' error names the mod, and says 'the
\* mod' when the name is None.
C14_AsStated ==
    [][op'.name = "register" =>
          C14_Call(IF op'.mod_name = None THEN <<"t", "h", "e", " ", "m", "o", "d">> ELSE op'.mod_name)]_vars

\* C14, amended: as stated, but the 'No categories found' error says 'the mod'
\* when the name is None or the empty string.
C14_RegisterContract ==
    [][op'.name = "register" =>
          C14_Call(IF op'.mod_name = None \/ op'.mod_name = <<>>
                   THEN <<"t", "h", "e", " ", "m", "o", "d">> ELSE op'.mod_name)]_vars

C14_Witness ==
    /\ op.name = "register"
    /\ op.mod_name = <<>>
    /\ ~op.returned
    /\ error_list # <<>>
    /\ error_list[Len(error_list)] = [msg |-> "No categories found", what |-> <<"t", "h", "e", " ", "m", "o", "d">>]

(***************************************************************************)
(* Specification SpecFT: a ModFile constructed from a FilterTool file      *)
(***************************************************************************)

MaxFT == 3

FT_main == <<"#", "<", "M", "o", "d", " ", "N", "a", "m", "e", ">", "\n">>
FT_patch == <<"#", "<", "P", "a", "t", "c", "h", ">", "\n">>
FT_description == <<"#", "<", "M", "y", " ", "D", "E", "S", "C", "R", "I", "P", "T", "I", "O", "N", ">", "\n">>
FT_other == <<"#", "<", "O", "t", "h", "e", "r", ">", "\n">>
FT_hotfix == <<"#", "<", "h", "o", "t", "f", "i", "x", ">", "<", "k", ">", "v", "<", "/", "k", ">", "\n">>
FT_set == <<" ", "s", "e", "t", " ", "a", " ", "b", " ", "c", "\n">>
FT_testing == <<"T", "e", "s", "t", "i", "n", "g", "\n">>
FTTitles == {FT_main, FT_patch}
FT_close_description == <<"#", "<", "/", "M", "y", " ", "D", "E", "S", "C", "R", "I", "P", "T", "I", "O", "N", ">", "\n">>
FT_close_other == <<"#", "<", "/", "O", "t", "h", "e", "r", ">", "\n">>
FT_close_main == <<"#", "<", "/", "M", "o", "d", " ", "N", "a", "m", "e", ">", "\n">>
FTLines ==
    {FT_description, FT_other, FT_hotfix, FT_set, FT_testing, Line_blank,
     FT_close_description, FT_close_other, FT_close_main}
FTFiles ==
    {[name |-> FileName, lines |-> <<first>> \o rest, pos |-> 0] :
        first \in FTTitles, rest \in SeqsUpTo(FTLines, MaxFT)}

FTInit ==
    /\ df \in FTFiles
    /\ mod = ModFile(0, S_UNKNOWN, None)
    /\ op = NotLoaded
    /\ error_list = <<>>
    /\ cabinet = <<>>
    /\ run = <<>>
    /\ cache = <<>>
    /\ fs = <<>>
    /\ readme = <<>>
    /\ rd = <<>>

SpecFT == FTInit /\ [][CtorNext]_vars

\* The description read from the lines ls of the file df
C16_Desc(ls) == ModFile_load(1, [df EXCEPT !.lines = ls], mod.status, None).mod_desc
\* The line of the title category: the first line with a tag
C16_Main == CHOOSE t \in 1..Len(df.lines) :
                /\ Search_ft_cat(df.lines[t]) # None
                /\ \A j \in 1..(t - 1) : Search_ft_cat(df.lines[j]) = None
C16_IsDescription(i) ==
    /\ Search_ft_cat(df.lines[i]) # None
    /\ Contains(Lower(Search_ft_cat(df.lines[i])), <<"d", "e", "s", "c", "r", "i", "p", "t", "i", "o", "n">>)
\* Line i ends capture: a nested tag that is no description, 'set ' or '#<hotfix>'
C16_Ends(i) ==
    /\ i > C16_Main
    /\ \/ Search_ft_cat(df.lines[i]) # None /\ ~C16_IsDescription(i)
       \/ StartsWith(Strip(df.lines[i], Whitespace), <<"s", "e", "t", " ">>)
       \/ StartsWith(Strip(df.lines[i], Whitespace), <<"#", "<", "h", "o", "t", "f", "i", "x", ">">>)
C16_Capturing(i) == i > C16_Main /\ \A j \in 1..(i - 1) : ~C16_Ends(j)
C16_Without(i) == SubSeq(df.lines, 1, i - 1) \o SubSeq(df.lines, i + 1, Len(df.lines))

C29_IsClosing(i) ==
    /\ Search_ft_cat(df.lines[i]) # None
    /\ StartsWith(Search_ft_cat(df.lines[i]), <<"/">>)

\* C29: in a FilterTool file a closing tag is read as a tag is: met while
\* capturing, the closing tag of a category ends capture for the rest of the
\* file, the closing tag of a description sub-category does not, and the
\* plain lines after it are still described up to the next ending line.
C29_ClosingTags ==
    (op.name = "ModFile" /\ op.extractor = "load_ft") =>
        \A i \in 1..Len(df.lines) :
            (C29_IsClosing(i) /\ C16_Capturing(i)) =>
                IF C16_IsDescription(i)
                THEN /\ mod.mod_desc = C16_Desc(C16_Without(i))
                     /\ \A j \in (i + 1)..Len(df.lines) :
                           (df.lines[j] = FT_testing /\ C16_Capturing(j)) =>
                               \E k \in 1..Len(mod.mod_desc) : mod.mod_desc[k] = <<"T", "e", "s", "t", "i", "n", "g">>
                ELSE /\ C16_Ends(i)
                     /\ mod.mod_desc = C16_Desc(SubSeq(df.lines, 1, i - 1))
                     /\ Len(mod.mod_desc) =
                           Cardinality({j \in 1..(i - 1) : df.lines[j] = FT_testing})

\* A line described after the end of a description sub-category
C29_Witness ==
    /\ op.name = "ModFile"
    /\ op.extractor = "load_ft"
    /\ df.lines = <<FT_main, FT_description, FT_close_description, FT_testing>>
    /\ mod.mod_desc = <<<<"T", "e", "s", "t", "i", "n", "g">>>>

(***************************************************************************)
(* Specification SpecBlcmm: a ModFile constructed from a BLCMM file        *)
(***************************************************************************)

MaxBlcmm == 5

Blcmm_category_mod == <<"<", "c", "a", "t", "e", "g", "o", "r", "y", " ", "n", "a", "m", "e", "=", "\"", "m", "o", "d", "\"", ">", "\n">>
Blcmm_comment_d == <<"<", "c", "o", "m", "m", "e", "n", "t", ">", "d", "<", "/", "c", "o", "m", "m", "e", "n", "t", ">", "\n">>
Blcmm_code == <<"<", "c", "o", "d", "e", " ", "p", "r", "o", "f", "i", "l", "e", "s", "=", "\"", "d", "e", "f", "a", "u", "l", "t", "\"", ">", "s", "e", "t", " ", "a", " ", "b", " ", "c", "<", "/", "c", "o", "d", "e", ">", "\n">>
BlcmmLines == {Line_category, Blcmm_category_mod, Line_comment, Blcmm_comment_d, Blcmm_code}
BlcmmFiles ==
    {[name |-> FileName, lines |-> <<Line_blcmm>> \o rest, pos |-> 0] :
        rest \in SeqsUpTo(BlcmmLines, MaxBlcmm)}

BlcmmInit ==
    /\ df \in BlcmmFiles
    /\ mod = ModFile(0, S_UNKNOWN, None)
    /\ op = NotLoaded
    /\ error_list = <<>>
    /\ cabinet = <<>>
    /\ run = <<>>
    /\ cache = <<>>
    /\ fs = <<>>
    /\ readme = <<>>
    /\ rd = <<>>

SpecBlcmm == BlcmmInit /\ [][CtorNext]_vars

\* The lines with a category tag and with a comment tag, the first line of the
\* file having been read by the constructor
C17_Categories == {i \in 2..Len(df.lines) : Search_blcmm_cat(df.lines[i]) # None}
C17_First(S) == CHOOSE i \in S : \A j \in S : i <= j
C17_Comments(after) ==
    {i \in (after + 1)..Len(df.lines) : Search_comment(df.lines[i]) # None}
\* The first maximal run of comment lines after the line of the title
C17_Run(after) ==
    IF C17_Comments(after) = {} THEN {}
    ELSE LET s == C17_First(C17_Comments(after))
         IN  {i \in s..Len(df.lines) : \A j \in s..i : Search_comment(df.lines[j]) # None}
C17_Contents(S) ==
    IF S = {} THEN <<>>
    ELSE [k \in 1..Cardinality(S) |-> Search_comment(df.lines[C17_First(S) + k - 1])]

C18_Label ==
    CASE op.extractor = "load_blcmm" /\ C17_Categories # {} ->
            Search_blcmm_cat(df.lines[C17_First(C17_Categories)])
      [] op.extractor = "load_ft" /\ \E i \in 1..Len(df.lines) : Search_ft_cat(df.lines[i]) # None ->
            Search_ft_cat(df.lines[C17_First({i \in 1..Len(df.lines) : Search_ft_cat(df.lines[i]) # None})])
      [] OTHER -> None
C18_TitleFallback ==
    (op.name = "ModFile" /\ C18_Label # None /\ Lower(Strip(C18_Label, Whitespace)) \in {<<"p", "a", "t", "c", "h">>, <<"m", "o", "d">>}) =>
        mod.mod_title = <<"M">>

(***************************************************************************)
(* Specification SpecUnknown: a ModFile constructed from a free-text file  *)
(***************************************************************************)

MaxUnknown == 3

Unknown_name == <<"M", "o", "d", " ", "A", ".", "t", "x", "t">>
Unknown_same == <<"/", "/", " ", "m", "o", "d", " ", "a", "\n">>
Unknown_bracketed == <<"<", "M", "o", "d", " ", "A", ">", "\n">>
Unknown_close == <<"M", "o", "d", " ", "B", "\n">>
Unknown_art == <<"~", "~", "~", "\n">>
UnknownLines ==
    {Unknown_same, Unknown_bracketed, Unknown_close, Unknown_art, Line_blank, Line_set, Line_ft}
UnknownFiles ==
    {[name |-> Unknown_name, lines |-> ls, pos |-> 0] : ls \in SeqsUpTo(UnknownLines, MaxUnknown)}

UnknownInit ==
    /\ df \in UnknownFiles
    /\ mod = ModFile(0, S_UNKNOWN, None)
    /\ op = NotLoaded
    /\ error_list = <<>>
    /\ cabinet = <<>>
    /\ run = <<>>
    /\ cache = <<>>
    /\ fs = <<>>
    /\ readme = <<>>
    /\ rd = <<>>

SpecUnknown == UnknownInit /\ [][CtorNext]_vars

\* The file name without extension
C19_Stem == SubSeq(df.name, 1, Len(df.name) - 4)
\* The lines before the first 'set ' or '#<' line
C19_Stops ==
    {i \in 1..Len(df.lines) :
        \/ StartsWith(Strip(df.lines[i], Whitespace), <<"s", "e", "t", " ">>)
        \/ StartsWith(Strip(df.lines[i], Whitespace), <<"#", "<">>)}
C19_Before ==
    IF C19_Stops = {} THEN df.lines
    ELSE SubSeq(df.lines, 1, (CHOOSE i \in C19_Stops : \A j \in C19_Stops : i <= j) - 1)
\* A line rejected as blank or decorative while the description is empty
C19_Rejected(line) ==
    \/ Strip(line, CommentChars) = <<>>
    \/ Strip(Strip(line, CommentChars), ArtChars) = <<>>
C19_Candidates == {i \in 1..Len(C19_Before) : ~C19_Rejected(C19_Before[i])}
C19_First == CHOOSE i \in C19_Candidates : \A j \in C19_Candidates : i <= j
\* The description made of lines none of which is tested as a title
RECURSIVE C19_Described(_, _)
C19_Described(self, lines) ==
    IF lines = <<>> THEN self.mod_desc
    ELSE C19_Described(add_comment_line(self, Head(lines), None), Tail(lines))
C19_Description(from) ==
    LET d == C19_Described(ModFile(0, S_UNKNOWN, None),
                           SubSeq(C19_Before, from, Len(C19_Before)))
    IN  IF Len(d) > 0 THEN PopEmpty(d) ELSE d
C19_Unbracketed(t) ==
    IF t[1] = "<" /\ t[Len(t)] = ">" THEN SubSeq(t, 2, Len(t) - 1) ELSE t
C19_Matches ==
    10 * LCS(Lower(C19_Stem), Lower(Strip(C19_Before[C19_First], CommentChars)))
        > 4 * (Len(C19_Stem) + Len(Strip(C19_Before[C19_First], CommentChars)))
C19_Loaded(title(_)) ==
    (op.name = "ModFile" /\ op.extractor = "load_unknown") =>
        IF C19_Candidates = {}
        THEN mod.mod_title = C19_Stem /\ mod.mod_desc = <<>>
        ELSE IF C19_Matches
        THEN /\ mod.mod_title = title(Strip(C19_Before[C19_First], CommentChars))
             /\ mod.mod_desc = C19_Description(C19_First + 1)
        ELSE /\ mod.mod_title = C19_Stem
             /\ mod.mod_desc = C19_Description(C19_First)

C20_After(n) ==
    ReadLinesOfReadme([self |-> Readme, prev_line |-> None, cur_section |-> Section_default],
                      SubSeq(rd.lines, 1, n))
C20_Line(i) == Strip(rd.lines[i], Whitespace)
C20_IsUnderline(i) ==
    /\ ~StartsWith(C20_Line(i), <<"#">>)
    /\ StartsWith(C20_Line(i), <<"=", "=", "=">>) \/ StartsWith(C20_Line(i), <<"-", "-", "-">>)
C20_FollowsLine(i) == i > 1 /\ C20_Line(i - 1) # <<>>
\* The previous line is the last line of the section that was current
C20_Appended(i) ==
    LET data == DictGet(C20_After(i - 1).self.mapping, C20_After(i - 1).cur_section)
    IN  Len(data) > 0 /\ data[Len(data)] = C20_Line(i - 1)
\* Line i makes a heading of the line before it
C20_Heading(i) ==
    LET before == C20_After(i - 1)
        after == C20_After(i)
        name == Lower(C20_Line(i - 1))
        data == DictGet(before.self.mapping, before.cur_section)
    IN  /\ after.cur_section = name
        /\ DictHas(after.self.mapping, name)
        /\ DictGet(after.self.mapping, name) = <<>>
        /\ \A k \in 1..Len(before.self.mapping) :
              LET sec == before.self.mapping[k]
              IN  sec.k # name =>
                     DictGet(after.self.mapping, sec.k) =
                        IF sec.k = before.cur_section /\ C20_Appended(i)
                        THEN SubSeq(data, 1, Len(data) - 1)
                        ELSE sec.v
\* Line i is added to the current section as any line is
C20_Content(i) ==
    LET before == C20_After(i - 1)
        after == C20_After(i)
    IN  /\ after.cur_section = before.cur_section
        /\ after.self.mapping =
              DictSet(before.self.mapping, before.cur_section,
                      Append(DictGet(before.self.mapping, before.cur_section), C20_Line(i)))
\* Line i changes neither the sections nor the current one
C20_Ignored(i) ==
    /\ C20_After(i).cur_section = C20_After(i - 1).cur_section
    /\ C20_After(i).self.mapping = C20_After(i - 1).self.mapping

\* C20 as stated: an underline after a non-empty line makes that line a
\* heading: the line leaves the section it was appended to and an empty current
\* section of its name, trimmed and lower-cased, is opened; with no previous
\* line, or after a blank one, the underline is appended as content.
C20_AsStated ==
    rd.read =>
        \A i \in 1..Len(rd.lines) :
            C20_IsUnderline(i) =>
                IF C20_FollowsLine(i) THEN C20_Heading(i) ELSE C20_Content(i)

\* C20, amended: as stated when the previous line was appended to the current
\* section; an underline after a non-empty line that was not appended (a '#'
\* or '-' heading, or an underline that was not appended) changes nothing.
C20_UnderlineHeading ==
    rd.read =>
        \A i \in 1..Len(rd.lines) :
            C20_IsUnderline(i) =>
                IF ~C20_FollowsLine(i) THEN C20_Content(i)
                ELSE IF C20_Appended(i) THEN C20_Heading(i)
                ELSE C20_Ignored(i)

\* A line made a heading by an underline, then an underline after the underline
C20_Witness ==
    /\ rd.read
    /\ rd.lines = <<Readme_text, Readme_equals, Readme_dashes>>
    /\ readme.mapping = <<[k |-> Section_default, v |-> <<>>], [k |-> <<"m", "o", "d">>, v |-> <<>>]>>

(***************************************************************************)
(* Specification SpecSections: a README of a few kinds of line is read     *)
(***************************************************************************)

MaxSectionLines == 5

SectionLines ==
    {Readme_blank, Readme_hash, Readme_overview, Readme_heading, Readme_text, Readme_equals}

SectionsInit ==
    /\ readme = Readme
    /\ rd \in {[lines |-> ls, read |-> FALSE] : ls \in SeqsUpTo(SectionLines, MaxSectionLines)}
    /\ op = [name |-> "none"]
    /\ cabinet = <<>>
    /\ run = <<>>
    /\ cache = <<>>
    /\ fs = <<>>
    /\ mod = <<>>
    /\ error_list = <<>>
    /\ df = <<>>

SpecSections == SectionsInit /\ [][ReadFileObj]_vars

\* Line i opens a section by itself
C21_IsHeading(i) ==
    \/ StartsWith(C20_Line(i), <<"#">>)
    \/ StartsWith(C20_Line(i), <<"-">>) /\ ~StartsWith(C20_Line(i), <<"-", "-", "-">>)
\* Line i is a non-empty line appended to the current section as content
C21_IsContent(i) ==
    /\ C20_Line(i) # <<>>
    /\ ~C21_IsHeading(i)
    /\ C20_IsUnderline(i) => ~C20_FollowsLine(i)
\* Line i is made a heading by the underline after it
C21_Reinterpreted(i) == i < Len(rd.lines) /\ C20_IsUnderline(i + 1)
C21_Counting == {i \in 1..Len(rd.lines) : C21_IsContent(i) /\ ~C21_Reinterpreted(i)}

\* C21: after read_file_obj, first_section names the first section, in file
\* order, that was given a non-empty content line, a line made a heading by a
\* following underline not counting; it is None exactly when there is no such
\* line.
C21_FirstSection ==
    rd.read =>
        readme.first_section =
            IF C21_Counting = {} THEN None
            ELSE C20_After(CHOOSE i \in C21_Counting : \A j \in C21_Counting : i <= j).cur_section

\* C22: after read_file_obj no section starts or ends with an empty line, and
\* the section '(default)' exists.
C22_SectionsTrimmed ==
    rd.read =>
        /\ DictHas(readme.mapping, Section_default)
        /\ \A k \in 1..Len(readme.mapping) :
              LET data == readme.mapping[k].v
              IN  Len(data) > 0 => (data[1] # <<>> /\ data[Len(data)] # <<>>)

\* Blank lines before, inside and after the content of a section
C22_Witness ==
    /\ rd.read
    /\ rd.lines = <<Readme_blank, Readme_text, Readme_blank, Readme_text, Readme_blank>>
    /\ readme.mapping = <<[k |-> Section_default, v |-> <<<<"M", "o", "d">>, <<>>, <<"M", "o", "d">>>>]>>

\* C30: after read_file_obj, a first_section that is not None names a section
\* of the mapping whose content is not empty.
C30_FirstSectionHasContent ==
    (rd.read /\ readme.first_section # None) =>
        /\ DictHas(readme.mapping, readme.first_section)
        /\ DictGet(readme.mapping, readme.first_section) # <<>>

(***************************************************************************)
(* URL lines of cabinet.info, under SpecCabinet                            *)
(***************************************************************************)

\* load_from_file after the first n lines of the file
RECURSIVE C23_Read(_)
C23_Read(n) ==
    IF n = 0
    THEN [self |-> [CabinetInfo(1, S_NEW) EXCEPT !.rel_filename = <<"A", "/", "c", "a", "b", "i", "n", "e", "t", ".", "i", "n", "f", "o">>],
          error_list |-> <<>>, prev_modfile |-> None]
    ELSE LoadLine(C23_Read(n - 1), df.lines[n])
\* Line i defines a mod: register is called with the name it gives
C23_Defines(i) ==
    \/ C13_Form(df.lines[i]) = "named" /\ ~C23_Read(i - 1).self.single_mod
    \/ C13_Form(df.lines[i]) = "bare" /\ Len(C23_Read(i - 1).self.mods) = 0
C23_Named(i) ==
    IF C13_Form(df.lines[i]) = "bare" THEN None
    ELSE LET unescaped == IF Head(df.lines[i]) = "\\" THEN Tail(df.lines[i]) ELSE df.lines[i]
         IN  SubSeq(unescaped, 1, Find(unescaped, <<":", " ">>) - 1)
C23_Definitions == {i \in 1..df.pos : C23_Defines(i)}
C23_Closest == CHOOSE i \in C23_Definitions : \A j \in C23_Definitions : j <= i
C23_AppendedTo(name) ==
    /\ cabinet'.self.mods =
          DictSet(cabinet.self.mods, name,
                  [DictGet(cabinet.self.mods, name) EXCEPT
                      !.urls = Append(@, Strip(op'.line, Whitespace))])
    /\ error_list' = error_list
C23_NotFound ==
    /\ cabinet'.self.mods = cabinet.self.mods
    /\ Len(error_list') = Len(error_list) + 1
    /\ SubSeq(error_list', 1, Len(error_list)) = error_list
    /\ error_list'[Len(error_list')].msg = "Did not find previous modfile"

\* C23: a URL line is appended to the URLs of the mod named by the closest
\* mod-definition line before it, and to those of no other mod; without a
\* registered mod before it, it adds one 'Did not find previous modfile' error
\* and leaves mods as they are.
C23_UrlOfClosestDefinition ==
    [][(op'.name = "load_from_file" /\ C13_Form(op'.line) = "url") =>
          IF Len(cabinet.self.mods) = 0 THEN C23_NotFound
          ELSE IF DictHas(cabinet.self.mods, C23_Named(C23_Closest))
          THEN C23_AppendedTo(C23_Named(C23_Closest))
          ELSE cabinet'.self.mods = cabinet.self.mods]_vars

(***************************************************************************)
(* The cache of cabinet.info records                                       *)
(***************************************************************************)

\* CabinetInfo.load_from_file over the lines of the file
RECURSIVE load_from_file(_, _)
load_from_file(st, lines) ==
    IF lines = <<>> THEN st ELSE load_from_file(LoadLine(st, Head(lines)), Tail(lines))

\* CabinetInfo.__init__ with a file: the record and the error list after it
CabinetInfo_load(mtime, initial_status, rel_filename, lines, errors) ==
    load_from_file([self |-> [CabinetInfo(mtime, initial_status) EXCEPT
                                 !.rel_filename = rel_filename],
                    error_list |-> errors, prev_modfile |-> None],
                   lines)

\* Cacheable.serialize of a CabinetInfo that keeps the mtime of a record with
\* errors.
CabinetInfo_serialize_KeepMtime(self) ==
    [r |-> self.rel_filename, s |-> self.single_mod,
     o |-> [i \in 1..Len(self.mods) |->
               [k |-> IF self.mods[i].k = None THEN <<"n", "u", "l", "l">> ELSE self.mods[i].k,
                v |-> [f |-> self.mods[i].v.filename, c |-> self.mods[i].v.categories,
                       u |-> self.mods[i].v.urls]]],
     m |-> self.mtime]

\* Cacheable.serialize with CabinetInfo._serialize and has_errors, as the JSON
\* file holds it: the key None of mods is written as 'null'.
CabinetInfo_serialize(self) ==
    [r |-> self.rel_filename, s |-> self.single_mod,
     o |-> [i \in 1..Len(self.mods) |->
               [k |-> IF self.mods[i].k = None THEN <<"n", "u", "l", "l">> ELSE self.mods[i].k,
                v |-> [f |-> self.mods[i].v.filename, c |-> self.mods[i].v.categories,
                       u |-> self.mods[i].v.urls]]],
     m |-> IF self.errors THEN 0 ELSE self.mtime]

\* Cacheable.unserialize with CabinetInfo._unserialize
CabinetInfo_unserialize(input_dict) ==
    [CabinetInfo(input_dict.m, S_CACHED) EXCEPT
        !.rel_filename = input_dict.r,
        !.single_mod = input_dict.s,
        !.mods = [i \in 1..Len(input_dict.o) |->
                     [k |-> IF input_dict.o[i].k = <<"n", "u", "l", "l">> THEN None ELSE input_dict.o[i].k,
                      v |-> [filename |-> input_dict.o[i].v.f,
                             categories |-> input_dict.o[i].v.c,
                             urls |-> input_dict.o[i].v.u]]]]

\* FileCache.load for the cache of cabinet.info records: the mapping and the
\* error list after the call
InfoCache_load(mapping, errors, files, filename) ==
    LET mtime == files[filename].mtime
        initial_status == IF filename \notin DOMAIN mapping THEN S_NEW ELSE S_UPDATED
        parsed == CabinetInfo_load(mtime, initial_status, filename, files[filename].lines, errors)
    IN  IF filename \notin DOMAIN mapping \/ mtime # mapping[filename].mtime
        THEN [mapping |-> (filename :> parsed.self) @@ mapping, error_list |-> parsed.error_list]
        ELSE [mapping |-> mapping, error_list |-> errors]

(***************************************************************************)
(* Specification SpecInfoCache: a cabinet.info read in run after run       *)
(***************************************************************************)

MaxInfoMtime == 2

Info_name == <<"A", "/", "c", "a", "b", "i", "n", "e", "t", ".", "i", "n", "f", "o">>
InfoContents ==
    {<<Cabinet_bare>>, <<Cabinet_invalid>>, <<Cabinet_named, Cabinet_url>>,
     <<Cabinet_named, Cabinet_mixed>>, <<Cabinet_url, Cabinet_comment>>}

InfoCacheInit ==
    /\ fs \in [{Info_name} -> [mtime : 1..MaxInfoMtime, lines : InfoContents]]
    /\ cache = <<>>
    /\ error_list = <<>>
    /\ run = [loaded |-> FALSE]
    /\ op = [name |-> "none"]
    /\ cabinet = <<>>
    /\ mod = <<>>
    /\ df = <<>>
    /\ readme = <<>>
    /\ rd = <<>>

\* self.info_cache.load(dirinfo, 'cabinet.info', ...) in the walk of a run
InfoLoad ==
    /\ ~run.loaded
    /\ LET r == InfoCache_load(cache, error_list, fs, Info_name)
       IN  /\ cache' = r.mapping
           /\ error_list' = r.error_list
    /\ run' = [loaded |-> TRUE]
    /\ op' = [name |-> "load"]
    /\ UNCHANGED <<fs, cabinet, mod, df, readme, rd>>

\* The run saves the cache; the next run reads it and starts its error list.
InfoNextRun ==
    /\ run.loaded
    /\ cache' = [k \in DOMAIN cache |-> CabinetInfo_unserialize(CabinetInfo_serialize(cache[k]))]
    /\ error_list' = <<>>
    /\ run' = [loaded |-> FALSE]
    /\ op' = [name |-> "reload"]
    /\ UNCHANGED <<fs, cabinet, mod, df, readme, rd>>

\* Between two runs somebody writes the file: new lines, any mtime but 0.
InfoWrite ==
    /\ ~run.loaded
    /\ \E mtime \in 1..MaxInfoMtime, lines \in InfoContents :
          /\ fs[Info_name] # [mtime |-> mtime, lines |-> lines]
          /\ fs' = [fs EXCEPT ![Info_name] = [mtime |-> mtime, lines |-> lines]]
    /\ op' = [name |-> "write"]
    /\ UNCHANGED <<cache, error_list, run, cabinet, mod, df, readme, rd>>

InfoCacheNext == InfoLoad \/ InfoNextRun \/ InfoWrite

SpecInfoCache == InfoCacheInit /\ [][InfoCacheNext]_vars

\* The record and the errors a parse of the file gives
C28_Parsed(status) ==
    CabinetInfo_load(fs[Info_name].mtime, status, Info_name, fs[Info_name].lines, <<>>)

\* C28: a record that recorded an error is saved with mtime 0, one without
\* error with its mtime; the next run parses the file of a record saved with
\* mtime 0 again, with status S_UPDATED, and appends its errors to the error
\* list again; a record without errors is reused while the mtime of its file
\* is unchanged.
C28_ErrorsReparsed ==
    /\ [][op'.name = "reload" =>
            \A k \in DOMAIN cache :
                cache'[k].mtime = IF cache[k].errors THEN 0 ELSE cache[k].mtime]_vars
    /\ [][(op'.name = "load" /\ Info_name \in DOMAIN cache) =>
            IF cache[Info_name].mtime = 0
            THEN /\ cache'[Info_name] = C28_Parsed(S_UPDATED).self
                 /\ error_list' = error_list \o C28_Parsed(S_UPDATED).error_list
            ELSE cache[Info_name].mtime = fs[Info_name].mtime =>
                    (cache' = cache /\ error_list' = error_list)]_vars

\* In a second run the unchanged file of a record with errors has been parsed
\* again and has reported its errors again
C28_Witness ==
    /\ op.name = "load"
    /\ Info_name \in DOMAIN cache
    /\ cache[Info_name].status = S_UPDATED
    /\ cache[Info_name].errors
    /\ fs[Info_name] = [mtime |-> 1, lines |-> <<Cabinet_named, Cabinet_mixed>>]
    /\ Len(error_list) = 1

(***************************************************************************)
(* Specification SpecWiki: runs of App._run over a repository of a few     *)
(* directories, each with a cabinet.info of one mod and at most one mod    *)
(* file: the walk, the records of deleted files, the names, the pages      *)
(***************************************************************************)

MaxRuns == 2

\* The game whose directory is walked: Game('BL2', 'G', 'Borderlands 2')
Game_abbreviation == <<"B", "L", "2">>
Game_dir_name == <<"G">>

\* wiki_filename(page_title)
wiki_filename(page_title) ==
    Replace1(Replace1(page_title, " ", <<"-">>), "/", <<"-">>) \o <<".", "m", "d">>

\* The reserved pages of _run: status, sidebar and categories pages, the static
\* page, the game pages and the pages of the category of the mods.
status_filename == <<"W", "i", "k", "i", "-", "S", "t", "a", "t", "u", "s", ".", "m", "d">>
sidebar_filename == <<"_", "S", "i", "d", "e", "b", "a", "r", ".", "m", "d">>
category_filename == <<"M", "o", "d", "-", "C", "a", "t", "e", "g", "o", "r", "i", "e", "s", ".", "m", "d">>
static_pages == {<<"H", "o", "m", "e", ".", "m", "d">>}
game_pages == {wiki_filename(<<"B", "o", "r", "d", "e", "r", "l", "a", "n", "d", "s", " ", "2">>), wiki_filename(<<"P", "r", "e", "-", "S", "e", "q", "u", "e", "l">>)}
cat_pages ==
    {wiki_filename(<<"B", "L", "2", " ", "Q", "u", "a", "l", "i", "t", "y", " ", "o", "f", " ", "L", "i", "f", "e", ":", " ", "G", "e", "n", "e", "r", "a", "l", " ", "Q", "o", "L">>),
     wiki_filename(<<"T", "P", "S", " ", "Q", "u", "a", "l", "i", "t", "y", " ", "o", "f", " ", "L", "i", "f", "e", ":", " ", "G", "e", "n", "e", "r", "a", "l", " ", "Q", "o", "L">>)}
reserved_pages ==
    {status_filename, sidebar_filename, category_filename}
        \cup static_pages \cup game_pages \cup cat_pages

\* The directories of the walk, in the order of the walk, and the mod file of each
WikiDirs ==
    << [dirpath |-> Repo_dir \o <<"/", "G", "/", "A", "/", "x">>, name |-> <<"M", ".", "t", "x", "t">>],
       [dirpath |-> Repo_dir \o <<"/", "G", "/", "A", "/", "y">>, name |-> <<"M", ".", "t", "x", "t">>],
       [dirpath |-> Repo_dir \o <<"/", "G", "/", "A", "/", "z">>, name |-> <<"N", ".", "t", "x", "t">>],
       [dirpath |-> Repo_dir \o <<"/", "G", "/", "M", "o", "d", " ", "C", "a", "t", "e", "g", "o", "r", "i", "e", "s", "/", "w">>, name |-> <<"M", ".", "t", "x", "t">>] >>
Wiki_full_filename(i) == WikiDirs[i].dirpath \o <<"/">> \o WikiDirs[i].name

\* ModFile.__init__ for the mod file of directory i
Wiki_ModFile(mtime, i, lines, initial_status) ==
    [ModFile_load(mtime, [name |-> WikiDirs[i].name, lines |-> lines, pos |-> 0],
                  initial_status, Game_abbreviation) EXCEPT
        !.full_filename = Wiki_full_filename(i),
        !.rel_path = rel_dirpath(Repo_dir, WikiDirs[i].dirpath),
        !.rel_filename = WikiDirs[i].name,
        !.mod_author = dir_author(Repo_dir, WikiDirs[i].dirpath)]

\* self.mod_cache.load(dirinfo, filename, game=game.abbreviation) in directory i
Wiki_load(mapping, files, i) ==
    LET p == Wiki_full_filename(i)
        initial_status == IF p \notin DOMAIN mapping THEN S_NEW ELSE S_UPDATED
    IN  IF p \notin DOMAIN mapping \/ files[i].mtime # mapping[p].mtime
        THEN (p :> Wiki_ModFile(files[i].mtime, i, files[i].lines, initial_status)) @@ mapping
        ELSE mapping

\* The walk in directory i: the record is loaded, then given its README
\* description (none), its changelog (none), its categories and its URLs (none).
Wiki_processed(mapping, files, i) ==
    LET p == Wiki_full_filename(i)
        loaded == Wiki_load(mapping, files, i)
        a == update_readme_desc(loaded[p], None, <<>>)
        b == update_changelog(a, <<>>)
        c == set_categories(b, <<Cat_qol>>)
        d == set_urls(c, <<>>)
    IN  (p :> d) @@ loaded

\* The key of a processed file in name_resolution
Wiki_key(processed_file) ==
    <<Lower(processed_file.mod_title), processed_file.game,
      Lower(processed_file.mod_author), processed_file.rel_filename>>

\* to_delete when nothing is ever deleted
to_delete_Nothing(mapping) == {}

\* The records _run deletes after the walk: those not seen
to_delete(mapping) == {filename \in DOMAIN mapping : ~mapping[filename].seen}

\* The name resolution of _run.  In name_resolution nr the files under a title
\* t, a game g and an author a:
nr_games(nr, t) == {k[2] : k \in {x \in DOMAIN nr : x[1] = t}}
nr_authors(nr, t, g) == {k[3] : k \in {x \in DOMAIN nr : x[1] = t /\ x[2] = g}}
nr_files(nr, t, g, a) ==
    {k[4] : k \in {x \in DOMAIN nr : x[1] = t /\ x[2] = g /\ x[3] = a}}

\* The record of key k after set_wiki_filename_base and set_title_display
Wiki_named(nr, mapping, author_names, k) ==
    LET mod_obj == mapping[nr[k]]
        game_suffix == IF Cardinality(nr_games(nr, k[1])) > 1
                       THEN <<" ", "-", " ">> \o k[2] ELSE <<>>
        filename_suffix == IF Cardinality(nr_files(nr, k[1], k[2], k[3])) > 1
                           THEN <<" ", "(", "f", "r", "o", "m", " ">> \o k[4] \o <<")">> ELSE <<>>
        author_suffix == IF Cardinality(nr_authors(nr, k[1], k[2])) > 1
                         THEN <<" ", "b", "y", " ">> \o mod_obj.mod_author ELSE <<>>
        new_filename == mod_obj.mod_title \o filename_suffix \o author_suffix \o game_suffix
        new_title_display == mod_obj.mod_title \o filename_suffix \o game_suffix
    IN  set_title_display(
            set_wiki_filename_base(mod_obj,
                IF new_filename \in author_names
                THEN new_filename \o <<" ", "b", "y", " ">> \o k[3]
                ELSE new_filename),
            new_title_display)

\* The keys of name_resolution whose file is in the mod cache
Wiki_hits(nr, mapping) == {k \in DOMAIN nr : nr[k] \in DOMAIN mapping}

\* The mod cache after the name resolution: each record found is named, then
\* linked to the others of its title.
Wiki_resolved(nr, mapping, author_names) ==
    LET hits == Wiki_hits(nr, mapping)
        named == [k \in hits |-> Wiki_named(nr, mapping, author_names, k)]
        shared_set(t) == {named[k] : k \in {x \in hits : x[1] = t}}
    IN  [p \in DOMAIN mapping |->
            IF \E k \in hits : nr[k] = p
            THEN LET k == CHOOSE x \in hits : nr[x] = p
                 IN  set_related_links(named[k], shared_set(k[1]) \ {named[k]})
            ELSE mapping[p]]

\* Author(0, initial_status, name), and the author cache after the name
\* resolution: each named mod is added to its author, new to the cache or not.
Author(initial_status, name) ==
    [mtime |-> 0, status |-> initial_status, name |-> name, mods |-> <<>>, cur_mods |-> <<>>]
Wiki_authors(nr, mapping, author_names, author_cache) ==
    LET hits == {k \in Wiki_hits(nr, mapping) : Truthy(mapping[nr[k]].mod_author)}
        named == [k \in hits |-> Wiki_named(nr, mapping, author_names, k)]
        of(a) == {k \in hits : named[k].mod_author = a}
        names == DOMAIN author_cache \cup {named[k].mod_author : k \in hits}
    IN  [a \in names |->
            LET author == IF a \in DOMAIN author_cache THEN author_cache[a]
                          ELSE Author(S_NEW, a)
            IN  [author EXCEPT !.cur_mods =
                    IF of(a) = {} THEN <<>>
                    ELSE [g \in {named[k].game : k \in of(a)} |->
                            {ModFile_wiki_link(named[k]) :
                                k \in {x \in of(a) : named[x].game = g}}]]]

\* Author.check_modlist: the author after the call
check_modlist(author) ==
    IF author.cur_mods # author.mods
    THEN [author EXCEPT !.mods = author.cur_mods, !.status = S_UPDATED]
    ELSE author

\* FileCache.save then FileCache.__init__ for the author cache
Author_reload(author_cache) ==
    [a \in DOMAIN author_cache |->
        [Author(S_CACHED, author_cache[a].name) EXCEPT !.mods = author_cache[a].mods]]

\* PageOutcome when only the reserved names are refused.
PageOutcome_ReservedOnly(filename, created_pages) ==
    IF filename \in reserved_pages THEN "reserved" ELSE "write"

\* What _run does with the page of an author or of a mod
PageOutcome(filename, created_pages) ==
    IF filename \in reserved_pages THEN "reserved"
    ELSE IF filename \in created_pages THEN "created"
    ELSE "write"
\* The contents of a mod file: a FilterTool file of title T, A or Wiki Status
Wiki_T == <<Line_ft>>
Wiki_A == <<<<"#", "<", "A", ">", "\n">>>>
Wiki_Status == <<<<"#", "<", "W", "i", "k", "i", " ", "S", "t", "a", "t", "u", "s", ">", "\n">>>>
Wiki_absent == [exists |-> FALSE, mtime |-> 0, lines |-> <<>>]
WikiContents(i) == IF i = 1 THEN {Wiki_T, Wiki_A, Wiki_Status} ELSE {Wiki_T}

\* The walk of a run that starts: every directory, with an empty name_resolution
Wiki_start(number, mapping, author_cache, disk, saved) ==
    [pc |-> "walk", number |-> number, todo |-> [i \in 1..Len(WikiDirs) |-> i],
     name_resolution |-> <<>>, processed |-> {}, loaded |-> DOMAIN mapping,
     author_cache |-> author_cache, created_pages |-> {}, wiki_files |-> {},
     authors_todo |-> {}, mods_todo |-> <<>>, written |-> {}, disk |-> disk,
     saved |-> saved, retval |-> 0]

WikiInit ==
    /\ fs \in {f \in [1..Len(WikiDirs) ->
                        {Wiki_absent} \cup [exists : {TRUE}, mtime : {1},
                                            lines : UNION {WikiContents(i) : i \in 1..Len(WikiDirs)}]] :
                  \A i \in 1..Len(WikiDirs) : f[i].exists => f[i].lines \in WikiContents(i)}
    /\ cache = <<>>
    /\ run = Wiki_start(1, <<>>, <<>>, {},
                        [mods |-> <<>>, authors |-> <<>>, templates |-> FALSE])
    /\ error_list = <<>>
    /\ op = [name |-> "none"]
    /\ mod = <<>>
    /\ df = <<>>
    /\ readme = <<>>
    /\ rd = <<>>
    /\ cabinet = <<>>

\* One directory of the walk.  Taking mod_title.lower() of a record without a
\* title raises, which ends the run.
WikiWalk ==
    /\ run.pc = "walk"
    /\ run.todo # <<>>
    /\ LET i == Head(run.todo)
           p == Wiki_full_filename(i)
       IN  IF ~fs[i].exists
           THEN /\ cache' = cache
                /\ run' = [run EXCEPT !.todo = Tail(@)]
           ELSE /\ cache' = Wiki_processed(cache, fs, i)
                /\ IF cache'[p].mod_title = None
                   THEN run' = [run EXCEPT !.pc = "aborted", !.retval = 1]
                   ELSE run' = [run EXCEPT
                                  !.todo = Tail(@),
                                  !.processed = @ \cup {p},
                                  !.name_resolution = (Wiki_key(cache'[p]) :> p) @@ @]
    /\ op' = [name |-> "walk"]
    /\ UNCHANGED <<fs, error_list, mod, df, readme, rd, cabinet>>

\* After the walk the records that were not seen are deleted from the mod cache
WikiDelete ==
    /\ run.pc = "walk"
    /\ run.todo = <<>>
    /\ cache' = [p \in DOMAIN cache \ to_delete(cache) |-> cache[p]]
    /\ run' = [run EXCEPT !.pc = "resolve"]
    /\ op' = [name |-> "delete"]
    /\ UNCHANGED <<fs, error_list, mod, df, readme, rd, cabinet>>

\* The mod names are resolved and the mods are added to their authors
WikiResolve ==
    /\ run.pc = "resolve"
    /\ LET author_names == {run.author_cache[a].name : a \in DOMAIN run.author_cache}
       IN  /\ cache' = Wiki_resolved(run.name_resolution, cache, author_names)
           /\ run' = [run EXCEPT
                        !.pc = "fixed",
                        !.author_cache =
                            Wiki_authors(run.name_resolution, cache, author_names, @)]
    /\ op' = [name |-> "resolve"]
    /\ UNCHANGED <<fs, error_list, mod, df, readme, rd, cabinet>>

\* The files of the wiki are listed, then the static pages, the pages of the
\* categories that have mods, the game pages, the sidebar and the categories
\* page are written.
WikiFixedPages ==
    /\ run.pc = "fixed"
    /\ LET seen == IF run.processed # {}
                   THEN {wiki_filename(<<"B", "L", "2", " ", "Q", "u", "a", "l", "i", "t", "y", " ", "o", "f", " ", "L", "i", "f", "e", ":", " ", "G", "e", "n", "e", "r", "a", "l", " ", "Q", "o", "L">>)} ELSE {}
           fixed == static_pages \cup seen \cup game_pages
       IN  run' = [run EXCEPT
                     !.pc = "pages",
                     !.wiki_files = run.disk,
                     !.created_pages =
                         {status_filename, sidebar_filename, category_filename} \cup fixed,
                     !.disk = @ \cup fixed \cup {sidebar_filename, category_filename},
                     !.authors_todo = DOMAIN run.author_cache,
                     !.mods_todo =
                         SelectSeq([i \in 1..Len(WikiDirs) |-> Wiki_full_filename(i)],
                                   LAMBDA p : p \in DOMAIN cache)]
    /\ op' = [name |-> "fixed"]
    /\ UNCHANGED <<cache, fs, error_list, mod, df, readme, rd, cabinet>>

\* The page of one author of the author cache
WikiAuthorPage ==
    /\ run.pc = "pages"
    /\ \E a \in run.authors_todo :
          LET author == run.author_cache[a]
              author_filename == wiki_filename(author.name)
              outcome == PageOutcome(author_filename, run.created_pages)
              checked == check_modlist(author)
              writes == \/ checked.status # S_CACHED
                        \/ ~run.saved.templates
                        \/ author_filename \notin run.wiki_files
          IN  /\ op' = [name |-> "author_page", filename |-> author_filename,
                        outcome |-> outcome]
              /\ IF outcome = "write"
                 THEN /\ error_list' = error_list
                      /\ run' = [run EXCEPT
                                   !.authors_todo = @ \ {a},
                                   !.created_pages = @ \cup {author_filename},
                                   !.author_cache[a] = checked,
                                   !.disk = IF writes THEN @ \cup {author_filename} ELSE @,
                                   !.written = IF writes
                                               THEN @ \cup {[page |-> author_filename,
                                                             by |-> <<"author", a>>]}
                                               ELSE @]
                 ELSE /\ error_list' = Append(error_list,
                                          [error |-> outcome, author |-> author_filename])
                      /\ run' = [run EXCEPT !.authors_todo = @ \ {a}]
    /\ UNCHANGED <<cache, fs, mod, df, readme, rd, cabinet>>

\* The page of one mod of the mod cache, in the order of the cache.  The wiki
\* filename of a record without a wiki_filename_base raises, which ends the run.
WikiModPage ==
    /\ run.pc = "pages"
    /\ run.authors_todo = {}
    /\ run.mods_todo # <<>>
    /\ LET p == Head(run.mods_todo)
           m == cache[p]
       IN  IF m.wiki_filename_base = None
           THEN /\ run' = [run EXCEPT !.pc = "aborted", !.retval = 1]
                /\ op' = [name |-> "mod_page", filename |-> None, outcome |-> "raise"]
                /\ error_list' = error_list
           ELSE LET mod_filename == wiki_filename(m.wiki_filename_base)
                    outcome == PageOutcome(mod_filename, run.created_pages)
                    writes == \/ ~run.saved.templates
                              \/ m.status # S_CACHED
                              \/ mod_filename \notin run.wiki_files
                IN  /\ op' = [name |-> "mod_page", filename |-> mod_filename,
                              outcome |-> outcome]
                    /\ IF outcome = "write"
                       THEN /\ error_list' = error_list
                            /\ run' = [run EXCEPT
                                         !.mods_todo = Tail(@),
                                         !.created_pages = @ \cup {mod_filename},
                                         !.disk = IF writes THEN @ \cup {mod_filename} ELSE @,
                                         !.written = IF writes
                                                     THEN @ \cup {[page |-> mod_filename,
                                                                   by |-> <<"mod", p>>]}
                                                     ELSE @]
                       ELSE /\ error_list' = Append(error_list,
                                                [error |-> outcome,
                                                 mod |-> m.rel_path \o <<"/">> \o m.rel_filename])
                            /\ run' = [run EXCEPT !.mods_todo = Tail(@)]
    /\ UNCHANGED <<cache, fs, mod, df, readme, rd, cabinet>>

\* The status page is written and the caches are saved
WikiSave ==
    /\ run.pc = "pages"
    /\ run.authors_todo = {}
    /\ run.mods_todo = <<>>
    /\ run' = [run EXCEPT
                 !.pc = "done",
                 !.disk = @ \cup {status_filename},
                 !.saved = [mods |-> FileCache_reload(cache),
                            authors |-> Author_reload(run.author_cache),
                            templates |-> TRUE]]
    /\ op' = [name |-> "save"]
    /\ UNCHANGED <<cache, fs, error_list, mod, df, readme, rd, cabinet>>

\* Between two runs a mod file is deleted, or written again, or nothing
\* happens; the next run starts from the caches that were saved.
WikiNextRun ==
    /\ run.pc \in {"done", "aborted"}
    /\ run.number < MaxRuns
    /\ \/ fs' = fs
       \/ \E i \in 1..Len(WikiDirs) :
             /\ fs[i].exists
             /\ \/ fs' = [fs EXCEPT ![i] = Wiki_absent]
                \/ fs' = [fs EXCEPT ![i].mtime = run.number + 1]
    /\ cache' = run.saved.mods
    /\ run' = Wiki_start(run.number + 1, run.saved.mods, run.saved.authors,
                         run.disk, run.saved)
    /\ error_list' = <<>>
    /\ op' = [name |-> "run"]
    /\ UNCHANGED <<mod, df, readme, rd, cabinet>>

WikiNext ==
    \/ WikiWalk
    \/ WikiDelete
    \/ WikiResolve
    \/ WikiFixedPages
    \/ WikiAuthorPage
    \/ WikiModPage
    \/ WikiSave
    \/ WikiNextRun

SpecWiki == WikiInit /\ [][WikiNext]_vars

\* C25: once the names are resolved, every mod record processed during the
\* walk has a wiki filename base and a display title, so that no run ends on
\* the wiki filename of a record without one.
C25_Resolved == run.pc \in {"fixed", "pages", "done"}
C25_AllProcessedNamed ==
    /\ C25_Resolved =>
          \A p \in run.processed :
              /\ p \in DOMAIN cache
              /\ cache[p].wiki_filename_base # None
              /\ cache[p].mod_title_display # None
    /\ ~(op.name = "mod_page" /\ op.outcome = "raise")

\* C26: the page of an author or of a mod is written only when its wiki
\* filename is neither reserved nor created earlier in the run; otherwise one
\* error is appended and nothing is written for it.  So no page written for
\* an author or a mod is a reserved page or the page of another entity.
C26_PageWrittenOnce ==
    [][(op'.name \in {"author_page", "mod_page"} /\ op'.outcome # "raise") =>
          LET filename == op'.filename
          IN  /\ IF filename \in reserved_pages \/ filename \in run.created_pages
                 THEN /\ Len(error_list') = Len(error_list) + 1
                      /\ SubSeq(error_list', 1, Len(error_list)) = error_list
                      /\ run'.written = run.written
                      /\ run'.disk = run.disk
                      /\ run'.created_pages = run.created_pages
                 ELSE /\ error_list' = error_list
                      /\ run'.created_pages = run.created_pages \cup {filename}
                      /\ run'.disk \subseteq run.disk \cup {filename}
                      /\ \A w \in run'.written \ run.written : w.page = filename
              /\ \A w \in run'.written :
                    /\ w.page \notin reserved_pages
                    /\ \A v \in run'.written : v.page = w.page => v = w]_vars

\* A mod whose page was created earlier in the run, by its author
C26_Witness ==
    /\ op.name = "mod_page"
    /\ op.outcome = "created"
    /\ Len(error_list) > 0
    /\ \E w \in run.written : w.page = op.filename /\ w.by[1] = "author"

\* C27: the records loaded from the saved mod cache that the walk neither
\* parsed again nor touched are out of the mod cache before a page is written
\* and before the cache is saved; the records of the walk are all kept.
C27_AfterDelete ==
    \/ run.pc \in {"resolve", "fixed", "pages", "done"}
    \/ run.pc = "aborted" /\ run.todo = <<>>
C27_UnseenRemoved ==
    /\ run.pc = "walk" =>
          /\ run.written = {}
          /\ run.created_pages = {}
          /\ \A p \in DOMAIN cache : cache[p].seen <=> p \in run.processed
    /\ C27_AfterDelete =>
          /\ \A p \in run.loaded \ run.processed : p \notin DOMAIN cache
          /\ \A p \in run.processed : p \in DOMAIN cache
    /\ run.pc = "done" =>
          DOMAIN run.saved.mods = DOMAIN cache

\* A second run that ends without the record of a file deleted since the first
C27_Witness ==
    /\ run.pc = "done"
    /\ run.number = 2
    /\ run.loaded \ run.processed # {}
    /\ run.processed # {}
    /\ \A p \in run.loaded \ run.processed : p \notin DOMAIN run.saved.mods

====
